---- MODULE Spec2Model ----
(***************************************************************************)
(* Ticket lifecycle engine of minisource/ticket: TicketUsecase over the    *)
(* ticket, agent, department, history and counter collections.             *)
(*                                                                         *)
(* A text (Go string) that is used as an identifier is modelled as a       *)
(* record [hex, v]: hex = TRUE is the 24-digit hexadecimal text of the     *)
(* ObjectID v; hex = FALSE is a text that is no ObjectID (v = 0: the empty *)
(* string). An ObjectID is a natural number, NilObjectID is 0. A *time     *)
(* pointer is modelled by its presence (TRUE: set, FALSE: nil).            *)
(***************************************************************************)
EXTENDS Integers, Sequences, FiniteSets, TLC

VARIABLES tickets, agents, departments, slaPolicies, history, counters,
          config, faults, procs, messages

vars ==
    <<tickets, agents, departments, slaPolicies, history, counters, config,
      faults, procs, messages>>

-----------------------------------------------------------------------------
(* Bounds of the model *)

NumTickets == 2
NumAgents == 2
NumDepartments == 2
MaxCapacity == 2
MaxHistory == 4
MaxFaults == 1
NumProcs == 2
MaxRequests == 2
NumPolicies == 2
MaxBulk == 2
NumCategories == 1

-----------------------------------------------------------------------------
(* Identifiers *)

NilObjectID == 0

\* The ObjectIDs of the departments, agents and tickets, and the ObjectIDs
\* the auth service gives its users, are pairwise different.
DeptIDs == 1..NumDepartments
AgentIDs == (NumDepartments + 1)..(NumDepartments + NumAgents)
TicketIDs ==
    (NumDepartments + NumAgents + 1)..(NumDepartments + NumAgents + NumTickets)
ExternalID(a) == a + NumAgents + NumTickets
SLAPolicyIDs ==
    (NumDepartments + 2 * NumAgents + NumTickets + 1)
        ..(NumDepartments + 2 * NumAgents + NumTickets + NumPolicies)
CategoryIDs ==
    (NumDepartments + 2 * NumAgents + NumTickets + NumPolicies + 1)
        ..(NumDepartments + 2 * NumAgents + NumTickets + NumPolicies
             + NumCategories)

Str(n) == [hex |-> FALSE, v |-> n]
HexStr(o) == [hex |-> TRUE, v |-> o]
EmptyString == Str(0)

\* primitive.ObjectID.Hex
Hex(o) == HexStr(o)

\* primitive.ObjectIDFromHex: the ObjectID a 24-digit hexadecimal text
\* denotes; any other text is an error and yields NilObjectID.
ObjectIDFromHex(s) ==
    IF s.hex THEN [id |-> s.v, err |-> FALSE]
             ELSE [id |-> NilObjectID, err |-> TRUE]

Tenant == "t1"

-----------------------------------------------------------------------------
(* models.TicketStatus *)

StatusOpen == "open"
StatusInProgress == "in_progress"
StatusPending == "pending"
StatusOnHold == "on_hold"
StatusResolved == "resolved"
StatusClosed == "closed"
StatusReopened == "reopened"
StatusEscalated == "escalated"
StatusCancelled == "cancelled"

TicketStatus ==
    {StatusOpen, StatusInProgress, StatusPending, StatusOnHold, StatusResolved,
     StatusClosed, StatusReopened, StatusEscalated, StatusCancelled}

AgentStatusAvailable == "available"
AgentStatusOffline == "offline"

\* The value of a nil *models.Ticket, *models.Agent or *models.Department.
Nil == [ID |-> NilObjectID]

\* The errors the use case returns.
NoError == ""
ErrInvalidTicketID == "invalid ticket ID"
ErrTicketNotFound == "ticket not found"
ErrInvalidTransition == "invalid status transition"
ErrAgentNotFound == "agent not found"
ErrCapacity == "agent has reached maximum capacity"
ErrInvalidDepartmentID == "invalid department ID"
ErrDepartmentNotFound == "department not found"
ErrSubjectRequired == "subject is required"
ErrDescriptionRequired == "description is required"
\* The error of a store call that failed (fmt.Errorf("failed to ...")).
ErrNotOwnUpdate == "you can only update your own tickets"
ErrNotOwnRate == "you can only rate your own tickets"
ErrNotRateable == "can only rate resolved or closed tickets"
ErrStore == "failed to write ticket"

-----------------------------------------------------------------------------
(* The store, passed through the handlers as one record *)

Store ==
    [tickets |-> tickets, agents |-> agents, departments |-> departments,
     slaPolicies |-> slaPolicies, history |-> history, counters |-> counters,
     config |-> config, messages |-> messages]

PriorityMedium == "medium"
PriorityHigh == "high"
PriorityLow == "low"

TypeQuestion == "question"
TypeIncident == "incident"

\* A float64 as the quotient n / d of two integers; d = 0: the value of a
\* division by zero, which is no finite number (+Inf, -Inf or NaN).
Zero == [n |-> 0, d |-> 1]
NotFinite == [n |-> 0, d |-> 0]

\* The customer the tickets are created for (CreateTicket's userID).
Customer == "c1"

\* models.Ticket as CreateTicket builds it, with the fields the lifecycle
\* engine reads or writes. A time stamp is a flag (set or nil), but for
\* FirstResponsedAt, which is 0 for nil and otherwise the time of the reply
\* that stamped it: the position of that reply in the ticket's thread.
NewTicket(tenantID, ticketNumber, priority) ==
    [ID |-> NilObjectID, TenantID |-> tenantID, TicketNumber |-> ticketNumber,
     Subject |-> "", Description |-> "", Type |-> TypeQuestion,
     CustomerID |-> Customer,
     Status |-> StatusOpen, Priority |-> priority,
     DepartmentID |-> NilObjectID, CategoryID |-> NilObjectID,
     AssignedToID |-> EmptyString, AssignedAt |-> FALSE,
     SLAPolicyID |-> NilObjectID,
     FirstResponseDue |-> FALSE, ResolutionDue |-> FALSE,
     FirstResponseMins |-> 0, ResolutionMins |-> 0,
     ResolvedAt |-> FALSE, ClosedAt |-> FALSE, ReopenCount |-> 0,
     MessageCount |-> 0, InternalNotes |-> 0,
     FirstResponsedAt |-> 0, LastCustomerReplyAt |-> FALSE,
     LastAgentReplyAt |-> FALSE,
     SatisfactionRating |-> 0,
     IsDeleted |-> FALSE]

-----------------------------------------------------------------------------
(* TicketRepository *)

\* The smallest ObjectID no stored ticket has: the _id InsertOne generates.
NextTicketID(tk) == CHOOSE i \in TicketIDs \ DOMAIN tk :
                        \A j \in TicketIDs \ DOMAIN tk : i <= j

ticketRepo_Create(tk, ticket, id) ==
    [i \in DOMAIN tk \cup {id} |->
        IF i = id THEN [ticket EXCEPT !.ID = id] ELSE tk[i]]

\* A lookup whose filter has no is_deleted: false.
ticketRepo_GetByID_Deleted(tk, id) ==
    IF id \in DOMAIN tk THEN tk[id] ELSE Nil

ticketRepo_GetByID(tk, id) ==
    IF id \in DOMAIN tk /\ ~tk[id].IsDeleted THEN tk[id] ELSE Nil

\* UpdateOne {$set: ticket}: a field tagged omitempty whose value is the zero
\* value is left out of the $set document, so the stored value stays.
ticketRepo_Update(tk, ticket) ==
    IF ticket.ID \notin DOMAIN tk THEN tk
    ELSE LET old == tk[ticket.ID] IN
         [tk EXCEPT ![ticket.ID] =
            [ID |-> old.ID,
             TenantID |-> ticket.TenantID,
             TicketNumber |-> ticket.TicketNumber,
             Subject |-> ticket.Subject,
             Description |-> ticket.Description,
             Type |-> ticket.Type,
             CategoryID |-> IF ticket.CategoryID = NilObjectID
                            THEN old.CategoryID ELSE ticket.CategoryID,
             Status |-> ticket.Status,
             Priority |-> ticket.Priority,
             DepartmentID |-> IF ticket.DepartmentID = NilObjectID
                              THEN old.DepartmentID ELSE ticket.DepartmentID,
             AssignedToID |-> IF ticket.AssignedToID = EmptyString
                              THEN old.AssignedToID ELSE ticket.AssignedToID,
             AssignedAt |-> IF ticket.AssignedAt = FALSE
                            THEN old.AssignedAt ELSE ticket.AssignedAt,
             SLAPolicyID |-> IF ticket.SLAPolicyID = NilObjectID
                             THEN old.SLAPolicyID ELSE ticket.SLAPolicyID,
             FirstResponseDue |-> IF ticket.FirstResponseDue = FALSE
                                  THEN old.FirstResponseDue
                                  ELSE ticket.FirstResponseDue,
             ResolutionDue |-> IF ticket.ResolutionDue = FALSE
                               THEN old.ResolutionDue
                               ELSE ticket.ResolutionDue,
             FirstResponseMins |-> IF ticket.FirstResponseDue = FALSE
                                   THEN old.FirstResponseMins
                                   ELSE ticket.FirstResponseMins,
             ResolutionMins |-> IF ticket.ResolutionDue = FALSE
                                THEN old.ResolutionMins
                                ELSE ticket.ResolutionMins,
             ResolvedAt |-> IF ticket.ResolvedAt = FALSE
                            THEN old.ResolvedAt ELSE ticket.ResolvedAt,
             ClosedAt |-> IF ticket.ClosedAt = FALSE
                          THEN old.ClosedAt ELSE ticket.ClosedAt,
             ReopenCount |-> ticket.ReopenCount,
             CustomerID |-> ticket.CustomerID,
             MessageCount |-> ticket.MessageCount,
             InternalNotes |-> ticket.InternalNotes,
             FirstResponsedAt |-> IF ticket.FirstResponsedAt = 0
                                  THEN old.FirstResponsedAt
                                  ELSE ticket.FirstResponsedAt,
             LastCustomerReplyAt |-> IF ticket.LastCustomerReplyAt = FALSE
                                     THEN old.LastCustomerReplyAt
                                     ELSE ticket.LastCustomerReplyAt,
             LastAgentReplyAt |-> IF ticket.LastAgentReplyAt = FALSE
                                  THEN old.LastAgentReplyAt
                                  ELSE ticket.LastAgentReplyAt,
             SatisfactionRating |-> IF ticket.SatisfactionRating = 0
                                    THEN old.SatisfactionRating
                                    ELSE ticket.SatisfactionRating,
             IsDeleted |-> ticket.IsDeleted]]

\* UpdateOne {$set: fields}: the named fields of the document with this _id,
\* deleted or not.
ticketRepo_UpdateFields(tk, id, fields) ==
    IF id \notin DOMAIN tk THEN tk
    ELSE [tk EXCEPT ![id] =
            [f \in DOMAIN tk[id] |->
                IF f \in DOMAIN fields THEN fields[f] ELSE tk[id][f]]]

\* UpdateOne with $inc: message_count, or, for an internal note, the $inc
\* document replaced by one of internal_notes alone.
ticketRepo_IncrementMessageCount(tk, id, isInternal) ==
    IF id \notin DOMAIN tk THEN tk
    ELSE IF isInternal
    THEN [tk EXCEPT ![id].InternalNotes = @ + 1]
    ELSE [tk EXCEPT ![id].MessageCount = @ + 1]

ticketRepo_Delete(tk, id) ==
    IF id \in DOMAIN tk THEN [tk EXCEPT ![id].IsDeleted = TRUE] ELSE tk

RECURSIVE Digits(_)
Digits(n) == IF n < 10 THEN <<n>> ELSE Append(Digits(n \div 10), n % 10)

RECURSIVE ZeroPad(_, _)
ZeroPad(s, w) == IF Len(s) >= w THEN s ELSE ZeroPad(<<0>> \o s, w)

\* fmt.Sprintf("TKT-%06d", n)
FormatTicketNumber(n) == <<"TKT-">> \o ZeroPad(Digits(n), 6)

\* A numbering that reads the next value and leaves the counter as it is.
ticketRepo_GetNextTicketNumber_ReadOnly(cnt, tenantID) ==
    LET seq == IF tenantID \in DOMAIN cnt THEN cnt[tenantID] + 1 ELSE 1 IN
    [counters |-> cnt, sequence |-> seq,
     ticketNumber |-> FormatTicketNumber(seq)]

\* FindOneAndUpdate {$inc: {sequence: 1}}, upsert, return the new document:
\* one atomic step of the store.
ticketRepo_GetNextTicketNumber(cnt, tenantID) ==
    LET seq == IF tenantID \in DOMAIN cnt THEN cnt[tenantID] + 1 ELSE 1 IN
    [counters |-> [t \in DOMAIN cnt \cup {tenantID} |->
                      IF t = tenantID THEN seq ELSE cnt[t]],
     sequence |-> seq,
     ticketNumber |-> FormatTicketNumber(seq)]

-----------------------------------------------------------------------------
(* AgentRepository *)

agentRepo_GetByID(ag, id) ==
    IF id \in DOMAIN ag /\ ~ag[id].IsDeleted THEN ag[id] ELSE Nil

agentRepo_GetByUserID(ag, tenantID, userID) ==
    LET found == {a \in DOMAIN ag : /\ ag[a].TenantID = tenantID
                                    /\ ag[a].UserID = userID
                                    /\ ~ag[a].IsDeleted} IN
    IF found = {} THEN Nil ELSE ag[CHOOSE a \in found : TRUE]

\* Find without the availability filter on the status.
agentRepo_GetAvailable_AnyStatus(ag, tenantID, departmentID) ==
    LET match == {a \in DOMAIN ag :
                    /\ ag[a].TenantID = tenantID
                    /\ ~ag[a].IsDeleted
                    /\ ag[a].IsActive
                    /\ ag[a].CurrentTickets < ag[a].MaxTickets
                    /\ (departmentID # NilObjectID =>
                            departmentID \in ag[a].DepartmentIDs)} IN
    {a \in match :
        \A b \in match : ag[a].CurrentTickets <= ag[b].CurrentTickets}

\* Find with the availability filter; the caller takes the first agent of the
\* result sorted by current_tickets, which is any agent of least
\* current_tickets among the matches.
agentRepo_GetAvailable(ag, tenantID, departmentID) ==
    LET match == {a \in DOMAIN ag :
                    /\ ag[a].TenantID = tenantID
                    /\ ~ag[a].IsDeleted
                    /\ ag[a].IsActive
                    /\ ag[a].Status = AgentStatusAvailable
                    /\ ag[a].CurrentTickets < ag[a].MaxTickets
                    /\ (departmentID # NilObjectID =>
                            departmentID \in ag[a].DepartmentIDs)} IN
    {a \in match :
        \A b \in match : ag[a].CurrentTickets <= ag[b].CurrentTickets}

\* An increment that the store refuses for an agent at capacity.
agentRepo_IncrementTicketCount_Guarded(ag, id) ==
    IF id \in DOMAIN ag /\ ag[id].CurrentTickets < ag[id].MaxTickets
    THEN [ag EXCEPT ![id].CurrentTickets = @ + 1, ![id].TicketsToday = @ + 1]
    ELSE ag

agentRepo_IncrementTicketCount(ag, id) ==
    IF id \in DOMAIN ag
    THEN [ag EXCEPT ![id].CurrentTickets = @ + 1, ![id].TicketsToday = @ + 1]
    ELSE ag

agentRepo_DecrementTicketCount(ag, id) ==
    IF id \in DOMAIN ag /\ ag[id].CurrentTickets > 0
    THEN [ag EXCEPT ![id].CurrentTickets = @ - 1]
    ELSE ag

\* UpdateOne {$set: agent}; avg_rating is tagged omitempty.
agentRepo_Update(ag, agent) ==
    IF agent.ID \notin DOMAIN ag THEN ag
    ELSE [ag EXCEPT ![agent.ID] =
            [agent EXCEPT !.AvgRating = IF agent.AvgRating.n = 0
                                           /\ agent.AvgRating.d # 0
                                        THEN ag[agent.ID].AvgRating
                                        ELSE agent.AvgRating]]

agentRepo_IncrementResolved(ag, id) ==
    IF id \in DOMAIN ag
    THEN [ag EXCEPT ![id].TotalResolved = @ + 1]
    ELSE ag

-----------------------------------------------------------------------------
(* DepartmentRepository, SLAPolicyRepository, HistoryRepository *)

\* A lookup that finds a department under every id.
departmentRepo_GetByID_Any(dp, id) ==
    IF id \in DOMAIN dp /\ ~dp[id].IsDeleted THEN dp[id]
    ELSE [ID |-> id, TenantID |-> Tenant, SLAPolicyID |-> NilObjectID,
          OpenTickets |-> 0, TotalTickets |-> 0, IsDeleted |-> FALSE]

departmentRepo_GetByID(dp, id) ==
    IF id \in DOMAIN dp /\ ~dp[id].IsDeleted THEN dp[id] ELSE Nil

departmentRepo_IncrementTicketCount(dp, departmentID, isOpen) ==
    IF departmentID \in DOMAIN dp
    THEN [dp EXCEPT ![departmentID].TotalTickets = @ + 1,
                    ![departmentID].OpenTickets =
                        IF isOpen THEN @ + 1 ELSE @]
    ELSE dp

\* A decrement whose filter has no open_tickets > 0.
departmentRepo_DecrementOpenTickets_Unguarded(dp, departmentID) ==
    IF departmentID \in DOMAIN dp
    THEN [dp EXCEPT ![departmentID].OpenTickets = @ - 1]
    ELSE dp

departmentRepo_DecrementOpenTickets(dp, departmentID) ==
    IF departmentID \in DOMAIN dp /\ dp[departmentID].OpenTickets > 0
    THEN [dp EXCEPT ![departmentID].OpenTickets = @ - 1]
    ELSE dp

slaRepo_GetByID(sp, id) ==
    IF id \in DOMAIN sp THEN sp[id] ELSE Nil

slaRepo_GetDefault(sp, tenantID) ==
    LET found == {p \in DOMAIN sp : /\ sp[p].TenantID = tenantID
                                    /\ sp[p].IsDefault
                                    /\ sp[p].IsActive} IN
    IF found = {} THEN Nil ELSE sp[CHOOSE p \in found : TRUE]

\* The history collection, as the entries of each ticket in the order they
\* were inserted (HistoryRepository.GetByTicketID).
\* HistoryRepository.Create of the entry createHistory builds for a field.
createHistoryOf(hist, ticketID, action, field) ==
    [t \in DOMAIN hist \cup {ticketID} |->
        IF t = ticketID
        THEN Append(IF t \in DOMAIN hist THEN hist[t] ELSE << >>,
                    [TicketID |-> ticketID, Action |-> action,
                     Field |-> field])
        ELSE hist[t]]

\* The entry of an action whose field no property reads.
createHistory(hist, ticketID, action) ==
    createHistoryOf(hist, ticketID, action, "")

\* CategoryRepository.GetByID. The categories are those of CategoryIDs, none
\* deleted: no operation of the ticket engine writes a category.
categoryRepo_GetByID(id) ==
    IF id \in CategoryIDs THEN [ID |-> id] ELSE Nil

RECURSIVE HistoryCountOf(_, _)
HistoryCountOf(hist, ids) ==
    IF ids = {} THEN 0
    ELSE LET t == CHOOSE x \in ids : TRUE IN
         Len(hist[t]) + HistoryCountOf(hist, ids \ {t})

\* The number of entries in the history collection.
HistoryCount(hist) == HistoryCountOf(hist, DOMAIN hist)

-----------------------------------------------------------------------------
(* TicketUsecase. A handler is an operator from the store and the request  *)
(* to the store it leaves, the error it returns and the ticket it returns. *)
(* fail = TRUE: the handler's ticket write to the store returns an error.  *)

Result(st, err, ticket) == [st |-> st, err |-> err, ticket |-> ticket]

GetTicket(st, id) ==
    LET ticketID == ObjectIDFromHex(id) IN
    IF ticketID.err THEN [ticket |-> Nil, err |-> ErrInvalidTicketID]
    ELSE LET ticket == ticketRepo_GetByID(st.tickets, ticketID.id) IN
         IF ticket = Nil THEN [ticket |-> Nil, err |-> ErrTicketNotFound]
         ELSE [ticket |-> ticket, err |-> NoError]

\* The capacity check with > for >=: an agent at its maximum passes.
AtCapacity_OffByOne(agent) == agent.CurrentTickets > agent.MaxTickets

\* AssignTicket's capacity check.
AtCapacity(agent) == agent.CurrentTickets >= agent.MaxTickets

\* The transition check with the customer's open -> cancelled case lost and
\* the pending case accepting every target.
isValidStatusTransition_Loose(from, to, isAgent) ==
    IF isAgent THEN TRUE
    ELSE IF from = StatusResolved
         THEN to = StatusReopened \/ to = StatusClosed
    ELSE IF from = StatusPending THEN TRUE
    ELSE FALSE

isValidStatusTransition(from, to, isAgent) ==
    IF isAgent THEN TRUE
    ELSE IF from = StatusResolved
         THEN to = StatusReopened \/ to = StatusClosed
    ELSE IF from = StatusPending THEN to = StatusOpen
    ELSE IF from = StatusOpen THEN to = StatusCancelled
    ELSE FALSE

\* The static defaults of the configuration, in hours.
DefaultResponseHours == 24
DefaultResolveHours == 72

\* The targets of a policy for a priority it has an entry for. Each policy
\* of the model has targets of its own for each priority, so that a due date
\* tells the policy and the entry it was computed from.
PriorityIndex(priority) ==
    CASE priority = PriorityLow -> 1
      [] priority = PriorityMedium -> 2
      [] priority = PriorityHigh -> 3

FirstResponseMinsOf(policy, priority) ==
    10 * policy.ID + PriorityIndex(priority)

ResolutionMinsOf(policy, priority) ==
    100 * policy.ID + PriorityIndex(priority)

\* The policy calculateSLA works with: the policy of the department when the
\* tenant's default is there, whatever the department.
PolicyFor_DefaultFirst(st, ticket) ==
    LET default == slaRepo_GetDefault(st.slaPolicies, ticket.TenantID)
        dept == IF ticket.DepartmentID # NilObjectID
                THEN departmentRepo_GetByID(st.departments,
                                            ticket.DepartmentID)
                ELSE Nil
    IN IF default # Nil THEN default
       ELSE IF dept # Nil /\ dept.SLAPolicyID # NilObjectID
       THEN slaRepo_GetByID(st.slaPolicies, dept.SLAPolicyID)
       ELSE Nil

\* The policy calculateSLA works with: the policy of the ticket's department
\* when the department names one that is stored, otherwise the tenant's
\* active default, Nil when there is none.
PolicyFor(st, ticket) ==
    LET dept == IF ticket.DepartmentID # NilObjectID
                THEN departmentRepo_GetByID(st.departments,
                                            ticket.DepartmentID)
                ELSE Nil
        deptPolicy == IF dept # Nil /\ dept.SLAPolicyID # NilObjectID
                      THEN slaRepo_GetByID(st.slaPolicies, dept.SLAPolicyID)
                      ELSE Nil
    IN IF deptPolicy = Nil
       THEN slaRepo_GetDefault(st.slaPolicies, ticket.TenantID)
       ELSE deptPolicy

\* FirstResponseDue, ResolutionDue: the time is set; FirstResponseMins,
\* ResolutionMins: the minutes from the time of the call to the time set.
calculateSLA(st, ticket) ==
    IF ~st.config.SLAEnabled THEN ticket
    ELSE
      LET policy == PolicyFor(st, ticket)
      IN IF policy = Nil
         THEN [ticket EXCEPT !.FirstResponseDue = TRUE,
                             !.ResolutionDue = TRUE,
                             !.FirstResponseMins = DefaultResponseHours * 60,
                             !.ResolutionMins = DefaultResolveHours * 60]
         ELSE IF ticket.Priority \in policy.Priorities
         THEN [ticket EXCEPT !.FirstResponseDue = TRUE,
                             !.ResolutionDue = TRUE,
                             !.FirstResponseMins =
                                 FirstResponseMinsOf(policy, ticket.Priority),
                             !.ResolutionMins =
                                 ResolutionMinsOf(policy, ticket.Priority),
                             !.SLAPolicyID = policy.ID]
         ELSE ticket

\* The outcomes of autoAssign: one for each agent the store may return first.
autoAssign(st, ticket) ==
    LET first == agentRepo_GetAvailable(st.agents, ticket.TenantID,
                                        ticket.DepartmentID) IN
    IF first = {} THEN {[st |-> st, ticket |-> ticket]}
    ELSE {LET agent == st.agents[a]
              t1 == [ticket EXCEPT !.AssignedToID = agent.UserID,
                                   !.AssignedAt = TRUE]
          IN [st |-> [st EXCEPT
                        !.tickets = ticketRepo_Update(st.tickets, t1),
                        !.agents = agentRepo_IncrementTicketCount(st.agents,
                                                                  agent.ID),
                        !.history = createHistory(st.history, ticket.ID,
                                                  "auto_assigned")],
              ticket |-> t1] : a \in first}

ChangeStatus(st, id, status, isAgent, fail) ==
    LET g == GetTicket(st, id)
        ticket == g.ticket
    IN
    IF g.err # NoError THEN Result(st, g.err, Nil)
    ELSE IF ~isValidStatusTransition(ticket.Status, status, isAgent)
    THEN Result(st, ErrInvalidTransition, Nil)
    ELSE
      LET oldStatus == ticket.Status
          agentID == ObjectIDFromHex(ticket.AssignedToID).id
          assigned == ticket.AssignedToID # EmptyString
          hasDept == ticket.DepartmentID # NilObjectID
          t1 == [ticket EXCEPT !.Status = status]
          t2 == IF status = StatusResolved
                THEN [t1 EXCEPT !.ResolvedAt = TRUE]
                ELSE IF status = StatusClosed
                THEN [t1 EXCEPT !.ClosedAt = TRUE]
                ELSE IF status = StatusReopened
                THEN [t1 EXCEPT !.ResolvedAt = FALSE, !.ClosedAt = FALSE,
                                !.ReopenCount = @ + 1]
                ELSE t1
          ag == IF status = StatusResolved /\ assigned
                THEN agentRepo_DecrementTicketCount(
                         agentRepo_IncrementResolved(st.agents, agentID),
                         agentID)
                ELSE IF /\ status = StatusClosed
                        /\ oldStatus # StatusResolved
                        /\ assigned
                THEN agentRepo_DecrementTicketCount(st.agents, agentID)
                ELSE st.agents
          dp == IF status = StatusResolved /\ hasDept
                THEN departmentRepo_DecrementOpenTickets(st.departments,
                                                         ticket.DepartmentID)
                ELSE IF /\ status = StatusClosed
                        /\ oldStatus # StatusResolved
                        /\ hasDept
                THEN departmentRepo_DecrementOpenTickets(st.departments,
                                                         ticket.DepartmentID)
                ELSE IF status = StatusReopened /\ hasDept
                THEN departmentRepo_IncrementTicketCount(st.departments,
                                                         ticket.DepartmentID,
                                                         TRUE)
                ELSE st.departments
          st1 == [st EXCEPT !.agents = ag, !.departments = dp]
      IN IF fail THEN Result(st1, ErrStore, Nil)
         ELSE Result([st1 EXCEPT
                        !.tickets = ticketRepo_Update(st.tickets, t2),
                        !.history = createHistory(st.history, ticket.ID,
                                                  "status_changed")],
                     NoError, t2)

AssignTicket(st, id, assigneeID, fail) ==
    LET g == GetTicket(st, id)
        ticket == g.ticket
    IN
    IF g.err # NoError THEN Result(st, g.err, Nil)
    ELSE
      LET agent == agentRepo_GetByUserID(st.agents, ticket.TenantID,
                                         assigneeID) IN
      IF agent = Nil THEN Result(st, ErrAgentNotFound, Nil)
      ELSE IF AtCapacity(agent)
      THEN Result(st, ErrCapacity, Nil)
      ELSE
        LET oldAgentID == ObjectIDFromHex(ticket.AssignedToID).id
            ag1 == IF ticket.AssignedToID # EmptyString
                   THEN agentRepo_DecrementTicketCount(st.agents, oldAgentID)
                   ELSE st.agents
            t1 == [ticket EXCEPT !.AssignedToID = agent.UserID,
                                 !.AssignedAt = TRUE]
            t2 == IF t1.FirstResponseDue = FALSE
                  THEN calculateSLA(st, t1) ELSE t1
            t3 == IF t2.Status = StatusOpen
                  THEN [t2 EXCEPT !.Status = StatusInProgress] ELSE t2
        IN IF fail THEN Result([st EXCEPT !.agents = ag1], ErrStore, Nil)
           ELSE Result([st EXCEPT
                          !.tickets = ticketRepo_Update(st.tickets, t3),
                          !.agents = agentRepo_IncrementTicketCount(ag1,
                                                                    agent.ID),
                          !.history = createHistory(st.history, ticket.ID,
                                                    "assigned")],
                       NoError, t3)

\* The outcomes of TransferTicket (one, or one for each agent autoAssign may
\* pick). The chained AssignTicket reads the ticket back from the store; its
\* error and the ticket it returns are dropped.
TransferTicket(st, id, departmentID, assigneeID, fail) ==
    LET g == GetTicket(st, id)
        ticket == g.ticket
        deptID == ObjectIDFromHex(departmentID)
    IN
    IF g.err # NoError THEN {Result(st, g.err, Nil)}
    ELSE IF deptID.err THEN {Result(st, ErrInvalidDepartmentID, Nil)}
    ELSE IF departmentRepo_GetByID(st.departments, deptID.id) = Nil
    THEN {Result(st, ErrDepartmentNotFound, Nil)}
    ELSE
      LET dp1 == IF ticket.DepartmentID # NilObjectID
                 THEN departmentRepo_DecrementOpenTickets(st.departments,
                                                          ticket.DepartmentID)
                 ELSE st.departments
          oldAgentID == ObjectIDFromHex(ticket.AssignedToID).id
          ag1 == IF ticket.AssignedToID # EmptyString
                 THEN agentRepo_DecrementTicketCount(st.agents, oldAgentID)
                 ELSE st.agents
          t1 == [ticket EXCEPT !.DepartmentID = deptID.id,
                               !.AssignedToID = EmptyString,
                               !.AssignedAt = FALSE]
          dp2 == departmentRepo_IncrementTicketCount(dp1, deptID.id, TRUE)
          st1 == [st EXCEPT !.departments = dp2, !.agents = ag1]
          st2 == [st1 EXCEPT
                    !.tickets = ticketRepo_Update(st.tickets, t1),
                    !.history = createHistory(st.history, ticket.ID,
                                              "transferred")]
      IN IF fail THEN {Result(st1, ErrStore, Nil)}
         ELSE IF assigneeID # EmptyString
         THEN {Result(AssignTicket(st2, id, assigneeID, FALSE).st,
                      NoError, t1)}
         ELSE IF st.config.AutoAssignEnabled
         THEN {Result(o.st, NoError, o.ticket) : o \in autoAssign(st2, t1)}
         ELSE {Result(st2, NoError, t1)}

\* CreateTicket's check of the required fields: the error it returns, NoError
\* when both are there.
RequiredField_SubjectOnly(req) ==
    IF req.Subject = "" THEN ErrSubjectRequired ELSE NoError

RequiredField(req) ==
    IF req.Subject = "" THEN ErrSubjectRequired
    ELSE IF req.Description = "" THEN ErrDescriptionRequired
    ELSE NoError

\* req: [TenantID, Subject, Description, Priority, DepartmentID]; Subject and
\* Description are "" or a text. The outcomes of CreateTicket.
CreateTicket(st, req, fail) ==
    IF RequiredField(req) # NoError
    THEN {Result(st, RequiredField(req), Nil)}
    ELSE
      LET next == ticketRepo_GetNextTicketNumber(st.counters, req.TenantID)
          st0 == [st EXCEPT !.counters = next.counters]
          deptID == ObjectIDFromHex(req.DepartmentID)
          t0 == [NewTicket(req.TenantID, next.ticketNumber,
                           IF req.Priority = "" THEN PriorityMedium
                                                ELSE req.Priority)
                   EXCEPT !.Subject = req.Subject,
                          !.Description = req.Description]
          t1 == IF /\ req.DepartmentID # EmptyString
                   /\ ~deptID.err
                   /\ departmentRepo_GetByID(st.departments, deptID.id) # Nil
                THEN [t0 EXCEPT !.DepartmentID = deptID.id]
                ELSE t0
          t2 == calculateSLA(st, t1)
          id == NextTicketID(st.tickets)
          t3 == [t2 EXCEPT !.ID = id]
          st1 == [st0 EXCEPT
                    !.tickets = ticketRepo_Create(st.tickets, t2, id),
                    !.departments =
                        IF t3.DepartmentID # NilObjectID
                        THEN departmentRepo_IncrementTicketCount(
                                 st.departments, t3.DepartmentID, TRUE)
                        ELSE st.departments,
                    !.history = createHistory(st.history, id, "created")]
      IN IF fail THEN {Result(st0, ErrStore, Nil)}
         ELSE IF st.config.AutoAssignEnabled /\ t3.DepartmentID # NilObjectID
         THEN {Result(o.st, NoError, o.ticket) : o \in autoAssign(st1, t3)}
         ELSE {Result(st1, NoError, t3)}

DeleteTicket(st, id, fail) ==
    LET g == GetTicket(st, id)
        ticket == g.ticket
    IN
    IF g.err # NoError THEN Result(st, g.err, Nil)
    ELSE
      LET agentID == ObjectIDFromHex(ticket.AssignedToID).id
          ag == IF ticket.AssignedToID # EmptyString
                THEN agentRepo_DecrementTicketCount(st.agents, agentID)
                ELSE st.agents
          dp == IF /\ ticket.DepartmentID # NilObjectID
                   /\ ticket.Status # StatusClosed
                   /\ ticket.Status # StatusResolved
                THEN departmentRepo_DecrementOpenTickets(st.departments,
                                                         ticket.DepartmentID)
                ELSE st.departments
          st1 == [st EXCEPT !.agents = ag, !.departments = dp]
      IN IF fail THEN Result(st1, ErrStore, Nil)
         ELSE Result([st1 EXCEPT
                        !.tickets = ticketRepo_Delete(st.tickets, ticket.ID)],
                     NoError, Nil)

SenderCustomer == "customer"
SenderAgent == "agent"
SenderSystem == "system"
SenderBot == "bot"
SenderType == {SenderCustomer, SenderAgent, SenderSystem, SenderBot}

\* MessageRepository.Create: the messages of each ticket in the order they
\* were inserted.
messageRepo_Create(msgs, message) ==
    [t \in DOMAIN msgs \cup {message.TicketID} |->
        IF t = message.TicketID
        THEN Append(IF t \in DOMAIN msgs THEN msgs[t] ELSE << >>, message)
        ELSE msgs[t]]

\* A customer's reply puts a ticket of any status back to open.
AnswersPending_AnyStatus(ticket, senderType) == senderType = SenderCustomer

\* AddReply, lines 508-511: the customer's reply to a pending ticket.
AnswersPending(ticket, senderType) ==
    senderType = SenderCustomer /\ ticket.Status = StatusPending

\* A reply that stamps the first response whatever the ticket holds.
FirstResponse_Always(ticket) == TRUE

\* AddReply, line 515: no first response is stamped on the ticket yet.
FirstResponse(ticket) == ticket.FirstResponsedAt = 0

\* req: [IsPrivate]. fail = TRUE: messageRepo.Create returns an error.
\* now: the time of the reply, its position in the ticket's thread.
AddReply(st, ticketID, req, senderType, fail) ==
    LET g == GetTicket(st, ticketID)
        ticket == g.ticket
    IN
    IF g.err # NoError THEN Result(st, g.err, Nil)
    ELSE IF fail THEN Result(st, ErrStore, Nil)
    ELSE
      LET message == [TicketID |-> ticket.ID, SenderType |-> senderType,
                      IsPrivate |-> req.IsPrivate]
          msgs1 == messageRepo_Create(st.messages, message)
          now == Len(msgs1[ticket.ID])
          tk1 == ticketRepo_IncrementMessageCount(st.tickets, ticket.ID,
                                                  req.IsPrivate)
          updates ==
            IF senderType = SenderCustomer
            THEN IF AnswersPending(ticket, senderType)
                 THEN [LastCustomerReplyAt |-> TRUE, Status |-> StatusOpen]
                 ELSE [LastCustomerReplyAt |-> TRUE]
            ELSE IF senderType = SenderAgent /\ ~req.IsPrivate
            THEN IF FirstResponse(ticket)
                 THEN [LastAgentReplyAt |-> TRUE, FirstResponsedAt |-> now]
                 ELSE [LastAgentReplyAt |-> TRUE]
            ELSE << >>
      IN Result([st EXCEPT
                   !.messages = msgs1,
                   !.tickets = ticketRepo_UpdateFields(tk1, ticket.ID,
                                                       updates)],
                NoError, message)

\* (avg * (totalResolved - 1) + rating) / totalResolved, in float64.
NewAvg(avg, totalResolved, rating) ==
    IF avg.d = 0 \/ totalResolved = 0 THEN NotFinite
    ELSE [n |-> avg.n * (totalResolved - 1) + rating * avg.d,
          d |-> avg.d * totalResolved]

\* req: [Rating]. fail = TRUE: ticketRepo.Update returns an error.
RateTicket(st, id, req, userID, fail) ==
    LET g == GetTicket(st, id)
        ticket == g.ticket
    IN
    IF g.err # NoError THEN Result(st, g.err, Nil)
    ELSE IF ticket.CustomerID # userID THEN Result(st, ErrNotOwnRate, Nil)
    ELSE IF ticket.Status # StatusResolved /\ ticket.Status # StatusClosed
    THEN Result(st, ErrNotRateable, Nil)
    ELSE IF fail THEN Result(st, ErrStore, Nil)
    ELSE
      LET t1 == [ticket EXCEPT !.SatisfactionRating = req.Rating]
          agentID == ObjectIDFromHex(ticket.AssignedToID).id
          agent == agentRepo_GetByID(st.agents, agentID)
          ag == IF ticket.AssignedToID # EmptyString /\ agent # Nil
                THEN agentRepo_Update(st.agents,
                        [agent EXCEPT !.AvgRating =
                            NewAvg(agent.AvgRating, agent.TotalResolved,
                                   req.Rating)])
                ELSE st.agents
      IN Result([st EXCEPT !.tickets = ticketRepo_Update(st.tickets, t1),
                           !.agents = ag],
                NoError, t1)

\* The nil pointer of a field the patch leaves out.
Absent == "nil"
AbsentID == Str(0 - 1)

\* A field the patch carries with a value other than the ticket's.
Patched(value, current) == value # Absent /\ value # current

\* req: [Subject, Description, Type, Priority, DepartmentID, CategoryID], each
\* Absent (AbsentID for an id) or a value. The history collection keeps no
\* order among the entries of one call: they are appended in the order of the
\* checks. fail = TRUE: ticketRepo.Update returns an error.
UpdateTicket(st, id, req, userID, isAgent, fail) ==
    LET g == GetTicket(st, id)
        ticket == g.ticket
    IN
    IF g.err # NoError THEN Result(st, g.err, Nil)
    ELSE IF ~isAgent /\ ticket.CustomerID # userID
    THEN Result(st, ErrNotOwnUpdate, Nil)
    ELSE
      LET newSubject == Patched(req.Subject, ticket.Subject)
          newDescription == Patched(req.Description, ticket.Description)
          newType == Patched(req.Type, ticket.Type)
          newPriority == Patched(req.Priority, ticket.Priority)
          t0 == [ticket EXCEPT
                   !.Subject = IF newSubject THEN req.Subject ELSE @,
                   !.Description = IF newDescription THEN req.Description
                                   ELSE @,
                   !.Type = IF newType THEN req.Type ELSE @]
          t1 == IF newPriority
                THEN calculateSLA(st, [t0 EXCEPT !.Priority = req.Priority])
                ELSE t0
          deptID == IF req.DepartmentID = AbsentID
                    THEN [id |-> NilObjectID, err |-> TRUE]
                    ELSE ObjectIDFromHex(req.DepartmentID)
          newDepartment ==
              /\ ~deptID.err
              /\ departmentRepo_GetByID(st.departments, deptID.id) # Nil
              /\ ticket.DepartmentID # deptID.id
          t2 == IF newDepartment
                THEN [t1 EXCEPT !.DepartmentID = deptID.id] ELSE t1
          catID == IF req.CategoryID = AbsentID
                   THEN [id |-> NilObjectID, err |-> TRUE]
                   ELSE ObjectIDFromHex(req.CategoryID)
          newCategory ==
              /\ ~catID.err
              /\ categoryRepo_GetByID(catID.id) # Nil
          t3 == IF newCategory
                THEN [t2 EXCEPT !.CategoryID = catID.id] ELSE t2
          h1 == IF newSubject
                THEN createHistoryOf(st.history, ticket.ID, "updated",
                                     "subject")
                ELSE st.history
          h2 == IF newDescription
                THEN createHistoryOf(h1, ticket.ID, "updated", "description")
                ELSE h1
          h3 == IF newType
                THEN createHistoryOf(h2, ticket.ID, "updated", "type")
                ELSE h2
          h4 == IF newPriority
                THEN createHistoryOf(h3, ticket.ID, "updated", "priority")
                ELSE h3
          h5 == IF newDepartment
                THEN createHistoryOf(h4, ticket.ID, "updated", "department")
                ELSE h4
          h6 == IF newCategory
                THEN createHistoryOf(h5, ticket.ID, "updated", "category")
                ELSE h5
      IN IF fail THEN Result(st, ErrStore, Nil)
         ELSE Result([st EXCEPT
                        !.tickets = ticketRepo_Update(st.tickets, t3),
                        !.history = h6],
                     NoError, t3)

-----------------------------------------------------------------------------
(* The requests *)

\* Agent k of the tenant: its capacity, its departments and the user id the
\* auth service gave it (a text that is no ObjectID for every other agent, the
\* hexadecimal text of an ObjectID of the auth service for the rest).
AgentIndex(a) == a - NumDepartments

UserIDOf(a) ==
    IF AgentIndex(a) % 2 = 1 THEN Str(a) ELSE HexStr(ExternalID(a))

MaxTicketsOf(a) == ((AgentIndex(a) - 1) % MaxCapacity) + 1

DepartmentIDsOf(a) == {d \in DeptIDs : d <= AgentIndex(a)}

\* The ticket ids a request may carry: every ticket id in hexadecimal, one
\* text that is no ObjectID.
TicketIDArgs == {Hex(t) : t \in TicketIDs} \cup {Str(1)}

\* The department ids a request may carry: every department, the id of no
\* department, a text that is no ObjectID, and none.
DepartmentIDArgs ==
    {Hex(d) : d \in DeptIDs} \cup {Hex(NilObjectID), Str(1), EmptyString}

\* The assignee ids a request may carry: every agent's user id, one unknown.
AssigneeIDArgs == {agents[a].UserID : a \in AgentIDs} \cup {Str(1)}

CreateRequests ==
    [TenantID : {Tenant}, Subject : {"", "s"}, Description : {"", "d"},
     Priority : {""}, DepartmentID : DepartmentIDArgs]

-----------------------------------------------------------------------------
(* The state machine: one request at a time *)

Init ==
    /\ tickets = << >>
    /\ agents = [a \in AgentIDs |->
                    [ID |-> a, TenantID |-> Tenant, UserID |-> UserIDOf(a),
                     DepartmentIDs |-> DepartmentIDsOf(a),
                     Status |-> AgentStatusAvailable,
                     MaxTickets |-> MaxTicketsOf(a),
                     CurrentTickets |-> 0, TicketsToday |-> 0,
                     TotalResolved |-> 0, AvgRating |-> Zero,
                     IsActive |-> TRUE, IsDeleted |-> FALSE]]
    /\ departments = [d \in DeptIDs |->
                        [ID |-> d, TenantID |-> Tenant,
                         SLAPolicyID |-> NilObjectID,
                         OpenTickets |-> 0, TotalTickets |-> 0,
                         IsDeleted |-> FALSE]]
    /\ slaPolicies = << >>
    /\ history = << >>
    /\ counters = << >>
    /\ config \in [AutoAssignEnabled : BOOLEAN, SLAEnabled : {TRUE}]
    /\ faults = 0
    /\ procs = << >>
    /\ messages = << >>

\* The store after a handler returned.
Commit(st) ==
    /\ tickets' = st.tickets
    /\ agents' = st.agents
    /\ departments' = st.departments
    /\ slaPolicies' = st.slaPolicies
    /\ history' = st.history
    /\ counters' = st.counters
    /\ config' = st.config
    /\ messages' = st.messages

\* The bounds: a request is taken while fewer than MaxHistory history
\* entries, messages and failed store writes have been made, at most MaxFaults
\* of them failed writes.
Budget(fail) ==
    /\ HistoryCount(history) + HistoryCount(messages) + faults < MaxHistory
    /\ IF fail THEN faults < MaxFaults /\ faults' = faults + 1
               ELSE faults' = faults

DoCreateTicket ==
    \E req \in CreateRequests, fail \in BOOLEAN :
        /\ Budget(fail)
        /\ TicketIDs \ DOMAIN tickets # {}
        /\ \E r \in CreateTicket(Store, req, fail) : Commit(r.st)
        /\ UNCHANGED procs

DoChangeStatus ==
    \E id \in TicketIDArgs, status \in TicketStatus, isAgent \in BOOLEAN,
       fail \in BOOLEAN :
        /\ Budget(fail)
        /\ Commit(ChangeStatus(Store, id, status, isAgent, fail).st)
        /\ UNCHANGED procs

DoAssignTicket ==
    \E id \in TicketIDArgs, assigneeID \in AssigneeIDArgs, fail \in BOOLEAN :
        /\ Budget(fail)
        /\ Commit(AssignTicket(Store, id, assigneeID, fail).st)
        /\ UNCHANGED procs

DoTransferTicket ==
    \E id \in TicketIDArgs, departmentID \in DepartmentIDArgs,
       assigneeID \in AssigneeIDArgs \cup {EmptyString}, fail \in BOOLEAN :
        /\ Budget(fail)
        /\ \E r \in TransferTicket(Store, id, departmentID, assigneeID, fail) :
              Commit(r.st)
        /\ UNCHANGED procs

DoDeleteTicket ==
    \E id \in TicketIDArgs, fail \in BOOLEAN :
        /\ Budget(fail)
        /\ Commit(DeleteTicket(Store, id, fail).st)
        /\ UNCHANGED procs

Next ==
    \/ DoCreateTicket
    \/ DoChangeStatus
    \/ DoAssignTicket
    \/ DoTransferTicket
    \/ DoDeleteTicket

Spec == Init /\ [][Next]_vars

-----------------------------------------------------------------------------
(* The state machine of the conversation on a ticket: creation, status     *)
(* changes, assignment and replies, one request at a time                  *)

ReplyRequests == [IsPrivate : BOOLEAN]

\* The agents of the tenant, the second of them registered under a user id
\* that reads as the ObjectID of the first, or under one that does not.
InitReply ==
    /\ tickets = << >>
    /\ \E linked \in BOOLEAN :
        agents = [a \in AgentIDs |->
                    [ID |-> a, TenantID |-> Tenant,
                     UserID |-> IF linked /\ AgentIndex(a) = 2
                                THEN Hex(a - 1) ELSE UserIDOf(a),
                     DepartmentIDs |-> DepartmentIDsOf(a),
                     Status |-> AgentStatusAvailable,
                     MaxTickets |-> MaxTicketsOf(a),
                     CurrentTickets |-> 0, TicketsToday |-> 0,
                     TotalResolved |-> 0, AvgRating |-> Zero,
                     IsActive |-> TRUE, IsDeleted |-> FALSE]]
    /\ departments = [d \in DeptIDs |->
                        [ID |-> d, TenantID |-> Tenant,
                         SLAPolicyID |-> NilObjectID,
                         OpenTickets |-> 0, TotalTickets |-> 0,
                         IsDeleted |-> FALSE]]
    /\ slaPolicies = << >>
    /\ history = << >>
    /\ counters = << >>
    /\ config \in [AutoAssignEnabled : BOOLEAN, SLAEnabled : {TRUE}]
    /\ faults = 0
    /\ procs = << >>
    /\ messages = << >>

UserIDArgs == {Customer, "c2"}

RateRequests == [Rating : {1, 5}]

UpdateRequests ==
    [Subject : {Absent}, Description : {Absent}, Type : {Absent},
     Priority : {Absent, PriorityMedium, PriorityHigh},
     DepartmentID : {AbsentID} \cup DepartmentIDArgs,
     CategoryID : {AbsentID}]

DoRateTicket ==
    \E id \in TicketIDArgs, req \in RateRequests, userID \in UserIDArgs,
       fail \in BOOLEAN :
        /\ Budget(fail)
        /\ Commit(RateTicket(Store, id, req, userID, fail).st)
        /\ UNCHANGED procs

DoUpdateTicket ==
    \E id \in TicketIDArgs, req \in UpdateRequests, userID \in UserIDArgs,
       isAgent \in BOOLEAN, fail \in BOOLEAN :
        /\ Budget(fail)
        /\ Commit(UpdateTicket(Store, id, req, userID, isAgent, fail).st)
        /\ UNCHANGED procs


DoAddReply ==
    \E id \in TicketIDArgs, req \in ReplyRequests, senderType \in SenderType,
       fail \in BOOLEAN :
        /\ Budget(fail)
        /\ Commit(AddReply(Store, id, req, senderType, fail).st)
        /\ UNCHANGED procs

NextReply ==
    \/ DoCreateTicket
    \/ DoChangeStatus
    \/ DoAssignTicket
    \/ DoAddReply
    \/ DoRateTicket

SpecReply == InitReply /\ [][NextReply]_vars

\* The state machine of the patches of a ticket.
NextUpdate ==
    \/ DoCreateTicket
    \/ DoChangeStatus
    \/ DoUpdateTicket

SpecUpdate == Init /\ [][NextUpdate]_vars

-----------------------------------------------------------------------------
(* The state machine of SLA resolution: tickets of every priority created   *)
(* under every arrangement of SLA policies                                  *)

\* An SLA policy with targets for these priorities.
SLAPolicy(id, isDefault, isActive, priorities) ==
    [ID |-> id, TenantID |-> Tenant, IsDefault |-> isDefault,
     IsActive |-> isActive, Priorities |-> priorities]

\* The first policy, if there is one, is not the default and may be the
\* policy of the first department; the last, if there is one, is marked as
\* the tenant's default, active or not. Each has targets for some priorities.
InitSLA ==
    /\ tickets = << >>
    /\ agents = [a \in AgentIDs |->
                    [ID |-> a, TenantID |-> Tenant, UserID |-> UserIDOf(a),
                     DepartmentIDs |-> DepartmentIDsOf(a),
                     Status |-> AgentStatusAvailable,
                     MaxTickets |-> MaxTicketsOf(a),
                     CurrentTickets |-> 0, TicketsToday |-> 0,
                     TotalResolved |-> 0, AvgRating |-> Zero,
                     IsActive |-> TRUE, IsDeleted |-> FALSE]]
    /\ \E ids \in SUBSET SLAPolicyIDs, isActive \in BOOLEAN,
          pr \in [SLAPolicyIDs -> SUBSET {PriorityMedium, PriorityHigh}],
          deptPolicy \in {NilObjectID} \cup SLAPolicyIDs :
        /\ slaPolicies =
              [p \in ids |->
                  IF \A q \in SLAPolicyIDs : q <= p
                  THEN SLAPolicy(p, TRUE, isActive, pr[p])
                  ELSE SLAPolicy(p, FALSE, TRUE, pr[p])]
        /\ \A p \in SLAPolicyIDs \ ids : pr[p] = {}
        /\ departments =
              [d \in DeptIDs |->
                  [ID |-> d, TenantID |-> Tenant,
                   SLAPolicyID |-> IF d = 1 THEN deptPolicy ELSE NilObjectID,
                   OpenTickets |-> 0, TotalTickets |-> 0,
                   IsDeleted |-> FALSE]]
    /\ history = << >>
    /\ counters = << >>
    /\ config \in [AutoAssignEnabled : BOOLEAN, SLAEnabled : {TRUE}]
    /\ faults = 0
    /\ procs = << >>
    /\ messages = << >>

PriorityRequests ==
    [TenantID : {Tenant}, Subject : {"s"}, Description : {"d"},
     Priority : {"", PriorityLow, PriorityHigh},
     DepartmentID : {Hex(d) : d \in DeptIDs} \cup {EmptyString}]

DoCreateTicketOfPriority ==
    \E req \in PriorityRequests, fail \in BOOLEAN :
        /\ Budget(fail)
        /\ TicketIDs \ DOMAIN tickets # {}
        /\ \E r \in CreateTicket(Store, req, fail) : Commit(r.st)
        /\ UNCHANGED procs

NextSLA == DoCreateTicketOfPriority

SpecSLA == InitSLA /\ [][NextSLA]_vars

-----------------------------------------------------------------------------
(* Concurrent requests: NumProcs request handlers run CreateTicket and       *)
(* AssignTicket against the shared store, every store call one atomic step.  *)
(* The reads of the department and of the SLA policies, which no step of     *)
(* these handlers writes, are taken together with the ticket write that      *)
(* follows them.                                                             *)

ProcIDs == 1..NumProcs

\* A handler between two requests, having served n of them.
Idle(n) ==
    [op |-> "none", pc |-> "idle", served |-> n, err |-> NoError,
     sequence |-> 0, ticket |-> Nil, agent |-> Nil, departmentID |-> EmptyString,
     status |-> ""]

\* A sequence counter that has already handed out the last but one value of
\* six digits.
HighSequence == 10^6 - 2

InitConc ==
    /\ tickets = << >>
    /\ agents = [a \in AgentIDs |->
                    [ID |-> a, TenantID |-> Tenant, UserID |-> UserIDOf(a),
                     DepartmentIDs |-> DepartmentIDsOf(a),
                     Status |-> AgentStatusAvailable,
                     MaxTickets |-> MaxTicketsOf(a),
                     CurrentTickets |-> 0, TicketsToday |-> 0,
                     TotalResolved |-> 0, AvgRating |-> Zero,
                     IsActive |-> TRUE, IsDeleted |-> FALSE]]
    /\ departments = [d \in DeptIDs |->
                        [ID |-> d, TenantID |-> Tenant,
                         SLAPolicyID |-> NilObjectID,
                         OpenTickets |-> 0, TotalTickets |-> 0,
                         IsDeleted |-> FALSE]]
    /\ slaPolicies = << >>
    /\ history = << >>
    /\ counters \in {<< >>, [t \in {Tenant} |-> HighSequence]}
    /\ config \in [AutoAssignEnabled : BOOLEAN, SLAEnabled : {TRUE}]
    /\ faults = 0
    /\ procs = [p \in ProcIDs |-> Idle(0)]
    /\ messages = << >>

Free(p) ==
    /\ procs[p].pc \in {"idle", "done"}
    /\ procs[p].served < MaxRequests
    /\ HistoryCount(history) + faults < MaxHistory

\* The request is answered; the department id of the request is dead by then.
Done(p, err) ==
    [procs EXCEPT ![p].pc = "done", ![p].err = err,
                  ![p].departmentID = EmptyString]

\* The requests of the concurrent handlers: well-formed ones, which reach the
\* store.
ValidCreateRequests ==
    {req \in CreateRequests :
        /\ req.Subject # ""
        /\ req.Description # ""
        /\ req.DepartmentID \in {Hex(d) : d \in DeptIDs} \cup {EmptyString}}

ValidTicketIDArgs == {Hex(t) : t \in TicketIDs}

ValidAssigneeIDArgs == {UserIDOf(a) : a \in AgentIDs}

\* The creations that hold a ticket number and have not inserted yet.
Inserting == {p \in ProcIDs : procs[p].pc = "cr_insert"}

\* CreateTicket, lines 52-64: validation and GetNextTicketNumber.
CreateTicket_Allocate(p) ==
    \E req \in ValidCreateRequests :
        /\ Free(p)
        /\ Cardinality(TicketIDs \ DOMAIN tickets) > Cardinality(Inserting)
        /\ LET start == [Idle(procs[p].served + 1) EXCEPT
                            !.op = "CreateTicket"]
               next == ticketRepo_GetNextTicketNumber(counters, req.TenantID)
           IN IF req.Subject = ""
              THEN /\ procs' = [procs EXCEPT ![p] =
                        [start EXCEPT !.pc = "done",
                                      !.err = ErrSubjectRequired]]
                   /\ UNCHANGED counters
              ELSE IF req.Description = ""
              THEN /\ procs' = [procs EXCEPT ![p] =
                        [start EXCEPT !.pc = "done",
                                      !.err = ErrDescriptionRequired]]
                   /\ UNCHANGED counters
              ELSE /\ counters' = next.counters
                   /\ procs' = [procs EXCEPT ![p] =
                        [start EXCEPT
                            !.pc = "cr_insert",
                            !.sequence = next.sequence,
                            !.departmentID = req.DepartmentID,
                            !.ticket = [NewTicket(
                                req.TenantID, next.ticketNumber,
                                IF req.Priority = "" THEN PriorityMedium
                                                     ELSE req.Priority)
                                EXCEPT !.Subject = req.Subject,
                                       !.Description = req.Description]]]
        /\ UNCHANGED <<tickets, agents, departments, slaPolicies, history,
                       config, faults, messages>>

\* CreateTicket, lines 98-141: the department, the SLA and ticketRepo.Create,
\* which may fail.
CreateTicket_Insert(p) ==
    /\ procs[p].pc = "cr_insert"
    /\ \E fail \in BOOLEAN :
        LET deptID == ObjectIDFromHex(procs[p].departmentID)
            t0 == procs[p].ticket
            t1 == IF /\ procs[p].departmentID # EmptyString
                     /\ ~deptID.err
                     /\ departmentRepo_GetByID(departments, deptID.id) # Nil
                  THEN [t0 EXCEPT !.DepartmentID = deptID.id]
                  ELSE t0
            t2 == calculateSLA(Store, t1)
            id == NextTicketID(tickets)
        IN IF fail
           THEN /\ faults < MaxFaults
                /\ faults' = faults + 1
                /\ procs' = Done(p, ErrStore)
                /\ UNCHANGED tickets
           ELSE /\ tickets' = ticketRepo_Create(tickets, t2, id)
                /\ procs' = [procs EXCEPT ![p].pc = "cr_count",
                                          ![p].departmentID = EmptyString,
                                          ![p].ticket = [t2 EXCEPT !.ID = id]]
                /\ UNCHANGED faults
    /\ UNCHANGED <<agents, departments, slaPolicies, history, counters,
                   config, messages>>

\* CreateTicket, lines 143-146.
CreateTicket_Count(p) ==
    /\ procs[p].pc = "cr_count"
    /\ departments' =
          IF procs[p].ticket.DepartmentID # NilObjectID
          THEN departmentRepo_IncrementTicketCount(
                   departments, procs[p].ticket.DepartmentID, TRUE)
          ELSE departments
    /\ procs' = [procs EXCEPT ![p].pc = "cr_history"]
    /\ UNCHANGED <<tickets, agents, slaPolicies, history, counters, config,
                   faults, messages>>

\* CreateTicket, lines 148-156.
CreateTicket_History(p) ==
    /\ procs[p].pc = "cr_history"
    /\ history' = createHistory(history, procs[p].ticket.ID, "created")
    /\ procs' =
          IF /\ config.AutoAssignEnabled
             /\ procs[p].ticket.DepartmentID # NilObjectID
          THEN [procs EXCEPT ![p].pc = "aa_find"]
          ELSE Done(p, NoError)
    /\ UNCHANGED <<tickets, agents, departments, slaPolicies, counters,
                   config, faults, messages>>

\* autoAssign, lines 670-676: GetAvailable and the choice of its first agent.
autoAssign_Find(p) ==
    /\ procs[p].pc = "aa_find"
    /\ LET first == agentRepo_GetAvailable(agents, procs[p].ticket.TenantID,
                                           procs[p].ticket.DepartmentID)
       IN IF first = {} THEN procs' = Done(p, NoError)
          ELSE \E a \in first :
                 procs' = [procs EXCEPT
                    ![p].pc = "aa_update",
                    ![p].agent = agents[a],
                    ![p].ticket = [@ EXCEPT
                                      !.AssignedToID = agents[a].UserID,
                                      !.AssignedAt = TRUE]]
    /\ UNCHANGED <<tickets, agents, departments, slaPolicies, history,
                   counters, config, faults, messages>>

\* autoAssign, line 683.
autoAssign_Update(p) ==
    /\ procs[p].pc = "aa_update"
    /\ tickets' = ticketRepo_Update(tickets, procs[p].ticket)
    /\ procs' = [procs EXCEPT ![p].pc = "aa_count"]
    /\ UNCHANGED <<agents, departments, slaPolicies, history, counters,
                   config, faults, messages>>

\* autoAssign, line 684.
autoAssign_Count(p) ==
    /\ procs[p].pc = "aa_count"
    /\ agents' = agentRepo_IncrementTicketCount(agents, procs[p].agent.ID)
    /\ procs' = [procs EXCEPT ![p].pc = "aa_history"]
    /\ UNCHANGED <<tickets, departments, slaPolicies, history, counters,
                   config, faults, messages>>

\* autoAssign, line 686.
autoAssign_History(p) ==
    /\ procs[p].pc = "aa_history"
    /\ history' = createHistory(history, procs[p].ticket.ID, "auto_assigned")
    /\ procs' = Done(p, NoError)
    /\ UNCHANGED <<tickets, agents, departments, slaPolicies, counters,
                   config, faults, messages>>

\* AssignTicket, lines 338-350: GetTicket and GetByUserID.
AssignTicket_Get(p) ==
    \E id \in ValidTicketIDArgs, assigneeID \in ValidAssigneeIDArgs :
        /\ Free(p)
        /\ LET start == [Idle(procs[p].served + 1) EXCEPT
                            !.op = "AssignTicket"]
               g == GetTicket(Store, id)
               agent == agentRepo_GetByUserID(agents, g.ticket.TenantID,
                                              assigneeID)
           IN procs' = [procs EXCEPT ![p] =
                IF g.err # NoError
                THEN [start EXCEPT !.pc = "done", !.err = g.err]
                ELSE IF agent = Nil
                THEN [start EXCEPT !.pc = "done", !.err = ErrAgentNotFound]
                ELSE [start EXCEPT !.pc = "as_check", !.ticket = g.ticket,
                                   !.agent = agent]]
        /\ UNCHANGED <<tickets, agents, departments, slaPolicies, history,
                       counters, config, faults, messages>>

\* AssignTicket, lines 352-361: the capacity check on the agent as it was
\* read, and the decrement of the old assignee.
AssignTicket_Check(p) ==
    /\ procs[p].pc = "as_check"
    /\ IF AtCapacity(procs[p].agent)
       THEN /\ procs' = Done(p, ErrCapacity)
            /\ UNCHANGED agents
       ELSE /\ agents' =
                  IF procs[p].ticket.AssignedToID # EmptyString
                  THEN agentRepo_DecrementTicketCount(
                         agents,
                         ObjectIDFromHex(procs[p].ticket.AssignedToID).id)
                  ELSE agents
            /\ procs' = [procs EXCEPT ![p].pc = "as_update"]
    /\ UNCHANGED <<tickets, departments, slaPolicies, history, counters,
                   config, faults, messages>>

\* AssignTicket, lines 363-384.
AssignTicket_Update(p) ==
    /\ procs[p].pc = "as_update"
    /\ LET t1 == [procs[p].ticket EXCEPT
                    !.AssignedToID = procs[p].agent.UserID,
                    !.AssignedAt = TRUE]
           t2 == IF t1.FirstResponseDue = FALSE
                 THEN calculateSLA(Store, t1) ELSE t1
           t3 == IF t2.Status = StatusOpen
                 THEN [t2 EXCEPT !.Status = StatusInProgress] ELSE t2
       IN /\ tickets' = ticketRepo_Update(tickets, t3)
          /\ procs' = [procs EXCEPT ![p].pc = "as_count", ![p].ticket = t3]
    /\ UNCHANGED <<agents, departments, slaPolicies, history, counters,
                   config, faults, messages>>

\* AssignTicket, line 387.
AssignTicket_Count(p) ==
    /\ procs[p].pc = "as_count"
    /\ agents' = agentRepo_IncrementTicketCount(agents, procs[p].agent.ID)
    /\ procs' = [procs EXCEPT ![p].pc = "as_history"]
    /\ UNCHANGED <<tickets, departments, slaPolicies, history, counters,
                   config, faults, messages>>

\* AssignTicket, lines 389-391.
AssignTicket_History(p) ==
    /\ procs[p].pc = "as_history"
    /\ history' = createHistory(history, procs[p].ticket.ID, "assigned")
    /\ procs' = Done(p, NoError)
    /\ UNCHANGED <<tickets, agents, departments, slaPolicies, counters,
                   config, faults, messages>>

NextConc ==
    \E p \in ProcIDs :
        \/ CreateTicket_Allocate(p)
        \/ CreateTicket_Insert(p)
        \/ CreateTicket_Count(p)
        \/ CreateTicket_History(p)
        \/ autoAssign_Find(p)
        \/ autoAssign_Update(p)
        \/ autoAssign_Count(p)
        \/ autoAssign_History(p)
        \/ AssignTicket_Get(p)
        \/ AssignTicket_Check(p)
        \/ AssignTicket_Update(p)
        \/ AssignTicket_Count(p)
        \/ AssignTicket_History(p)

SpecConc == InitConc /\ [][NextConc]_vars

-----------------------------------------------------------------------------
(* The state machine of the racing writers: tickets are created one request *)
(* at a time; ChangeStatus and AssignTicket run step by step, each store    *)
(* call of theirs one step.                                                 *)

\* The statuses the racing ChangeStatus asks for.
RaceStatuses == {StatusPending, StatusResolved}

\* ChangeStatus, lines 280-288: GetTicket and the transition check, by an
\* agent.
ChangeStatus_Get(p) ==
    \E id \in ValidTicketIDArgs, status \in RaceStatuses :
        /\ Free(p)
        /\ LET start == [Idle(procs[p].served + 1) EXCEPT
                            !.op = "ChangeStatus", !.status = status]
               g == GetTicket(Store, id)
           IN procs' = [procs EXCEPT ![p] =
                IF g.err # NoError
                THEN [start EXCEPT !.pc = "done", !.err = g.err]
                ELSE IF ~isValidStatusTransition(g.ticket.Status, status,
                                                 TRUE)
                THEN [start EXCEPT !.pc = "done",
                                   !.err = ErrInvalidTransition]
                ELSE [start EXCEPT !.pc = "cs_count", !.ticket = g.ticket]]
        /\ UNCHANGED <<tickets, agents, departments, slaPolicies, history,
                       counters, config, faults, messages>>

\* ChangeStatus, lines 290-325: the stamps on the ticket as it was read and
\* the counters of its assignee and of its department.
ChangeStatus_Count(p) ==
    /\ procs[p].pc = "cs_count"
    /\ LET ticket == procs[p].ticket
           status == procs[p].status
           r == ChangeStatus([Store EXCEPT
                                 !.tickets = ticketRepo_Create(
                                                 tickets, ticket, ticket.ID)],
                             Hex(ticket.ID), status, TRUE, FALSE)
       IN /\ agents' = r.st.agents
          /\ departments' = r.st.departments
          /\ procs' = [procs EXCEPT ![p].pc = "cs_update",
                                    ![p].ticket = r.ticket]
    /\ UNCHANGED <<tickets, slaPolicies, history, counters, config, faults,
                   messages>>

\* ChangeStatus, lines 327-329.
ChangeStatus_Update(p) ==
    /\ procs[p].pc = "cs_update"
    /\ tickets' = ticketRepo_Update(tickets, procs[p].ticket)
    /\ procs' = [procs EXCEPT ![p].pc = "cs_history"]
    /\ UNCHANGED <<agents, departments, slaPolicies, history, counters,
                   config, faults, messages>>

\* ChangeStatus, lines 331-333.
ChangeStatus_History(p) ==
    /\ procs[p].pc = "cs_history"
    /\ history' = createHistory(history, procs[p].ticket.ID,
                                "status_changed")
    /\ procs' = Done(p, NoError)
    /\ UNCHANGED <<tickets, agents, departments, slaPolicies, counters,
                   config, faults, messages>>

\* CreateTicket as one step, before the first of the racing requests.
CreateTicket_Whole ==
    \E req \in ValidCreateRequests :
        /\ \A p \in ProcIDs : procs[p] = Idle(0)
        /\ Budget(FALSE)
        /\ TicketIDs \ DOMAIN tickets # {}
        /\ \E r \in CreateTicket(Store, req, FALSE) : Commit(r.st)
        /\ UNCHANGED procs

NextRace ==
    \/ CreateTicket_Whole
    \/ \E p \in ProcIDs : ChangeStatus_Get(p)
    \/ \E p \in ProcIDs : ChangeStatus_Count(p)
    \/ \E p \in ProcIDs : ChangeStatus_Update(p)
    \/ \E p \in ProcIDs : ChangeStatus_History(p)
    \/ \E p \in ProcIDs : AssignTicket_Get(p)
    \/ \E p \in ProcIDs : AssignTicket_Check(p)
    \/ \E p \in ProcIDs : AssignTicket_Update(p)
    \/ \E p \in ProcIDs : AssignTicket_Count(p)
    \/ \E p \in ProcIDs : AssignTicket_History(p)

InitRace == InitConc /\ counters = << >>

SpecRace == InitRace /\ [][NextRace]_vars

-----------------------------------------------------------------------------
(* AdminUsecase: the bulk operations. Each walks the list of ticket ids    *)
(* and returns the store it leaves, the count of the tickets it has        *)
(* written and its error. failing: the tickets whose write to the store    *)
(* returns an error.                                                       *)

OtherTenant == "t2"

BulkResult(st, successCount, err) ==
    [st |-> st, successCount |-> successCount, err |-> err]

\* One turn of a loop: the store it leaves, and whether successCount grew.
Turn(st, ok) == [st |-> st, ok |-> ok]

\* The ticket a turn of the loop works on, Nil when the id does not parse or
\* no ticket of that id is stored.
BulkTicket(st, ticketIDStr) ==
    LET ticketID == ObjectIDFromHex(ticketIDStr) IN
    IF ticketID.err THEN Nil
    ELSE ticketRepo_GetByID(st.tickets, ticketID.id)

BulkAssignTickets_Turn(st, ticketIDStr, agent, failing) ==
    LET ticket == BulkTicket(st, ticketIDStr) IN
    IF ticket = Nil THEN Turn(st, FALSE)
    ELSE
      LET updates ==
            IF ticket.Status = StatusOpen
            THEN [AssignedToID |-> agent.UserID, AssignedAt |-> TRUE,
                  Status |-> StatusInProgress]
            ELSE [AssignedToID |-> agent.UserID, AssignedAt |-> TRUE]
      IN IF ticket.ID \in failing THEN Turn(st, FALSE)
         ELSE Turn([st EXCEPT
                      !.tickets = ticketRepo_UpdateFields(st.tickets,
                                                          ticket.ID, updates),
                      !.history = createHistory(st.history, ticket.ID,
                                                "assigned"),
                      !.agents = agentRepo_IncrementTicketCount(st.agents,
                                                                agent.ID)],
                   TRUE)

BulkChangeStatus_Turn(st, ticketIDStr, status, failing) ==
    LET ticket == BulkTicket(st, ticketIDStr) IN
    IF ticket = Nil THEN Turn(st, FALSE)
    ELSE
      LET updates ==
            IF status = StatusResolved \/ status = StatusClosed
            THEN [Status |-> status, ResolvedAt |-> TRUE]
            ELSE [Status |-> status]
      IN IF ticket.ID \in failing THEN Turn(st, FALSE)
         ELSE Turn([st EXCEPT
                      !.tickets = ticketRepo_UpdateFields(st.tickets,
                                                          ticket.ID, updates),
                      !.history = createHistory(st.history, ticket.ID,
                                                "status_changed")],
                   TRUE)

BulkChangePriority_Turn(st, ticketIDStr, priority, failing) ==
    LET ticket == BulkTicket(st, ticketIDStr) IN
    IF ticket = Nil THEN Turn(st, FALSE)
    ELSE IF ticket.ID \in failing THEN Turn(st, FALSE)
    ELSE Turn([st EXCEPT
                 !.tickets = ticketRepo_UpdateFields(st.tickets, ticket.ID,
                                                     [Priority |-> priority]),
                 !.history = createHistory(st.history, ticket.ID,
                                           "priority_changed")],
              TRUE)

BulkTransferDepartment_Turn(st, ticketIDStr, deptID, failing) ==
    LET ticket == BulkTicket(st, ticketIDStr) IN
    IF ticket = Nil THEN Turn(st, FALSE)
    ELSE IF ticket.ID \in failing THEN Turn(st, FALSE)
    ELSE
      LET dp1 == IF ticket.DepartmentID # NilObjectID
                 THEN departmentRepo_DecrementOpenTickets(st.departments,
                                                          ticket.DepartmentID)
                 ELSE st.departments
      IN Turn([st EXCEPT
                 !.tickets = ticketRepo_UpdateFields(st.tickets, ticket.ID,
                                                     [DepartmentID |-> deptID]),
                 !.departments =
                     departmentRepo_IncrementTicketCount(dp1, deptID, TRUE),
                 !.history = createHistory(st.history, ticket.ID,
                                           "transferred")],
              TRUE)

BulkDeleteTickets_Turn(st, ticketIDStr, tenantID, failing) ==
    LET ticket == BulkTicket(st, ticketIDStr) IN
    IF ticket = Nil THEN Turn(st, FALSE)
    ELSE IF ticket.TenantID # tenantID THEN Turn(st, FALSE)
    ELSE IF ticket.ID \in failing THEN Turn(st, FALSE)
    ELSE
      LET agent == agentRepo_GetByUserID(st.agents, tenantID,
                                         ticket.AssignedToID)
      IN Turn([st EXCEPT
                 !.tickets = ticketRepo_Delete(st.tickets, ticket.ID),
                 !.departments =
                     IF ticket.DepartmentID # NilObjectID
                     THEN departmentRepo_DecrementOpenTickets(
                              st.departments, ticket.DepartmentID)
                     ELSE st.departments,
                 !.agents =
                     IF ticket.AssignedToID # EmptyString /\ agent # Nil
                     THEN agentRepo_DecrementTicketCount(st.agents, agent.ID)
                     ELSE st.agents],
              TRUE)

\* The turn of the loop of the bulk operation op on one ticket id.
BulkTurn(op, st, ticketIDStr, arg, failing) ==
    CASE op = "assign" -> BulkAssignTickets_Turn(st, ticketIDStr, arg, failing)
      [] op = "status" -> BulkChangeStatus_Turn(st, ticketIDStr, arg, failing)
      [] op = "priority" ->
             BulkChangePriority_Turn(st, ticketIDStr, arg, failing)
      [] op = "transfer" ->
             BulkTransferDepartment_Turn(st, ticketIDStr, arg, failing)
      [] op = "delete" -> BulkDeleteTickets_Turn(st, ticketIDStr, arg, failing)

\* for _, ticketIDStr := range ticketIDs, then return successCount, nil.
RECURSIVE BulkLoop(_, _, _, _, _, _)
BulkLoop(op, st, ticketIDs, arg, failing, successCount) ==
    IF ticketIDs = << >> THEN BulkResult(st, successCount, NoError)
    ELSE LET turn == BulkTurn(op, st, Head(ticketIDs), arg, failing) IN
         BulkLoop(op, turn.st, Tail(ticketIDs), arg, failing,
                  IF turn.ok THEN successCount + 1 ELSE successCount)

BulkAssignTickets(st, tenantID, ticketIDs, agentID, failing) ==
    LET agent == agentRepo_GetByUserID(st.agents, tenantID, agentID) IN
    IF agent = Nil THEN BulkResult(st, 0, ErrAgentNotFound)
    ELSE BulkLoop("assign", st, ticketIDs, agent, failing, 0)

BulkChangeStatus(st, tenantID, ticketIDs, status, failing) ==
    BulkLoop("status", st, ticketIDs, status, failing, 0)

BulkChangePriority(st, tenantID, ticketIDs, priority, failing) ==
    BulkLoop("priority", st, ticketIDs, priority, failing, 0)

BulkTransferDepartment(st, tenantID, ticketIDs, departmentID, failing) ==
    LET deptID == ObjectIDFromHex(departmentID) IN
    IF deptID.err THEN BulkResult(st, 0, ErrInvalidDepartmentID)
    ELSE IF departmentRepo_GetByID(st.departments, deptID.id) = Nil
    THEN BulkResult(st, 0, ErrDepartmentNotFound)
    ELSE BulkLoop("transfer", st, ticketIDs, deptID.id, failing, 0)

BulkDeleteTickets(st, tenantID, ticketIDs, failing) ==
    BulkLoop("delete", st, ticketIDs, tenantID, failing, 0)

-----------------------------------------------------------------------------
(* The state machine of the administrator: tickets of two tenants are      *)
(* created, and the bulk operations work on lists of ticket ids            *)

\* The lists of ticket ids a bulk request may carry.
TicketIDLists ==
    UNION {[1..n -> TicketIDArgs] : n \in 0..MaxBulk}

\* The tickets whose write fails during one bulk request: none, or the first
\* ticket created.
Failing == {{}, {CHOOSE t \in TicketIDs : \A u \in TicketIDs : t <= u}}

\* The department a bulk transfer names: a department, or no ObjectID.
BulkDepartmentIDArgs == {Hex(d) : d \in DeptIDs} \cup {Str(1)}

TenantRequests ==
    [TenantID : {Tenant, OtherTenant}, Subject : {"s"}, Description : {"d"},
     Priority : {""}, DepartmentID : {Hex(d) : d \in DeptIDs} \cup {EmptyString}]

BulkStatuses == {StatusInProgress, StatusResolved, StatusClosed}

BulkBudget(failing) == Budget(failing # {})

DoCreateTicketOfTenant ==
    \E req \in TenantRequests :
        /\ Budget(FALSE)
        /\ TicketIDs \ DOMAIN tickets # {}
        /\ \E r \in CreateTicket(Store, req, FALSE) : Commit(r.st)
        /\ UNCHANGED procs

DoBulkAssignTickets ==
    \E ticketIDs \in TicketIDLists, agentID \in AssigneeIDArgs,
       failing \in Failing :
        /\ BulkBudget(failing)
        /\ Commit(BulkAssignTickets(Store, Tenant, ticketIDs, agentID,
                                    failing).st)
        /\ UNCHANGED procs

DoBulkChangeStatus ==
    \E ticketIDs \in TicketIDLists, status \in BulkStatuses,
       failing \in Failing :
        /\ BulkBudget(failing)
        /\ Commit(BulkChangeStatus(Store, Tenant, ticketIDs, status,
                                   failing).st)
        /\ UNCHANGED procs

DoBulkChangePriority ==
    \E ticketIDs \in TicketIDLists, priority \in {PriorityHigh},
       failing \in Failing :
        /\ BulkBudget(failing)
        /\ Commit(BulkChangePriority(Store, Tenant, ticketIDs, priority,
                                     failing).st)
        /\ UNCHANGED procs

DoBulkTransferDepartment ==
    \E ticketIDs \in TicketIDLists, departmentID \in BulkDepartmentIDArgs,
       failing \in Failing :
        /\ BulkBudget(failing)
        /\ Commit(BulkTransferDepartment(Store, Tenant, ticketIDs,
                                         departmentID, failing).st)
        /\ UNCHANGED procs

DoBulkDeleteTickets ==
    \E ticketIDs \in TicketIDLists, failing \in Failing :
        /\ BulkBudget(failing)
        /\ Commit(BulkDeleteTickets(Store, Tenant, ticketIDs, failing).st)
        /\ UNCHANGED procs

NextBulk ==
    \/ DoCreateTicketOfTenant
    \/ DoBulkAssignTickets
    \/ DoBulkChangeStatus
    \/ DoBulkChangePriority
    \/ DoBulkTransferDepartment
    \/ DoBulkDeleteTickets

SpecBulk == Init /\ [][NextBulk]_vars

-----------------------------------------------------------------------------
(* AdminUsecase: the management of the SLA policies. An optional field of  *)
(* a request (a nil or non-nil pointer or slice) is the set of no value or *)
(* of one value.                                                           *)

ErrNameRequired == "name is required"
ErrInvalidSLAPolicyID == "invalid SLA policy ID"
ErrSLAPolicyNotFound == "SLA policy not found"
ErrDeleteDefault == "cannot delete default SLA policy"

\* The value a non-nil pointer points to.
Deref(ptr) == CHOOSE x \in ptr : TRUE

\* The smallest ObjectID no stored policy has: the _id InsertOne generates.
NextSLAPolicyID(sp) == CHOOSE i \in SLAPolicyIDs \ DOMAIN sp :
                           \A j \in SLAPolicyIDs \ DOMAIN sp : i <= j

\* InsertOne, after is_active is set.
slaRepo_Create(sp, policy, id) ==
    [p \in DOMAIN sp \cup {id} |->
        IF p = id THEN [policy EXCEPT !.ID = id, !.IsActive = TRUE]
        ELSE sp[p]]

\* UpdateOne {$set: policy}; none of the modelled fields is omitempty.
slaRepo_Update(sp, policy) ==
    IF policy.ID \in DOMAIN sp THEN [sp EXCEPT ![policy.ID] = policy] ELSE sp

\* DeleteOne.
slaRepo_Delete(sp, id) == [p \in DOMAIN sp \ {id} |-> sp[p]]

\* req: [Name, IsDefault, Priorities].
CreateSLAPolicy(st, tenantID, req) ==
    IF req.Name = "" THEN Result(st, ErrNameRequired, Nil)
    ELSE LET id == NextSLAPolicyID(st.slaPolicies)
             policy == [SLAPolicy(id, req.IsDefault, TRUE, req.Priorities)
                           EXCEPT !.TenantID = tenantID]
         IN Result([st EXCEPT !.slaPolicies =
                        slaRepo_Create(st.slaPolicies, policy, id)],
                   NoError, policy)

GetSLAPolicy(st, id) ==
    LET slaID == ObjectIDFromHex(id) IN
    IF slaID.err THEN [policy |-> Nil, err |-> ErrInvalidSLAPolicyID]
    ELSE LET policy == slaRepo_GetByID(st.slaPolicies, slaID.id) IN
         IF policy = Nil THEN [policy |-> Nil, err |-> ErrSLAPolicyNotFound]
         ELSE [policy |-> policy, err |-> NoError]

\* req: [IsActive, IsDefault, Priorities], each optional.
UpdateSLAPolicy(st, id, req) ==
    LET g == GetSLAPolicy(st, id) IN
    IF g.err # NoError THEN Result(st, g.err, Nil)
    ELSE LET p1 == IF req.IsActive # {}
                   THEN [g.policy EXCEPT !.IsActive = Deref(req.IsActive)]
                   ELSE g.policy
             p2 == IF req.IsDefault # {}
                   THEN [p1 EXCEPT !.IsDefault = Deref(req.IsDefault)]
                   ELSE p1
             p3 == IF req.Priorities # {}
                   THEN [p2 EXCEPT !.Priorities = Deref(req.Priorities)]
                   ELSE p2
         IN Result([st EXCEPT !.slaPolicies =
                        slaRepo_Update(st.slaPolicies, p3)],
                   NoError, p3)

DeleteSLAPolicy(st, id) ==
    LET g == GetSLAPolicy(st, id) IN
    IF g.err # NoError THEN Result(st, g.err, Nil)
    ELSE IF g.policy.IsDefault THEN Result(st, ErrDeleteDefault, Nil)
    ELSE Result([st EXCEPT !.slaPolicies =
                     slaRepo_Delete(st.slaPolicies, g.policy.ID)],
                NoError, Nil)

-----------------------------------------------------------------------------
(* The state machine of the SLA policies of two tenants *)

PriorityLists == {{PriorityMedium}, {PriorityHigh}}

CreateSLAPolicyRequests ==
    [Name : {"", "n"}, IsDefault : BOOLEAN, Priorities : PriorityLists]

UpdateSLAPolicyRequests ==
    [IsActive : {{}, {TRUE}, {FALSE}}, IsDefault : {{}, {TRUE}, {FALSE}},
     Priorities : {{}} \cup {{l} : l \in PriorityLists}]

SLAPolicyIDArgs == {Hex(p) : p \in SLAPolicyIDs} \cup {Str(1)}

DoCreateSLAPolicy ==
    \E tenantID \in {Tenant, OtherTenant}, req \in CreateSLAPolicyRequests :
        /\ SLAPolicyIDs \ DOMAIN slaPolicies # {}
        /\ Commit(CreateSLAPolicy(Store, tenantID, req).st)
        /\ UNCHANGED <<faults, procs>>

DoUpdateSLAPolicy ==
    \E id \in SLAPolicyIDArgs, req \in UpdateSLAPolicyRequests :
        /\ Commit(UpdateSLAPolicy(Store, id, req).st)
        /\ UNCHANGED <<faults, procs>>

DoDeleteSLAPolicy ==
    \E id \in SLAPolicyIDArgs :
        /\ Commit(DeleteSLAPolicy(Store, id).st)
        /\ UNCHANGED <<faults, procs>>

NextPolicy ==
    \/ DoCreateSLAPolicy
    \/ DoUpdateSLAPolicy
    \/ DoDeleteSLAPolicy

SpecPolicy == Init /\ [][NextPolicy]_vars

-----------------------------------------------------------------------------
(* The state machine of assignment: agents available or offline, tickets   *)
(* created, transferred and assigned, one request at a time                *)

InitAssign ==
    /\ tickets = << >>
    /\ \E status \in [AgentIDs -> {AgentStatusAvailable, AgentStatusOffline}] :
          agents = [a \in AgentIDs |->
                      [ID |-> a, TenantID |-> Tenant, UserID |-> UserIDOf(a),
                       DepartmentIDs |-> DepartmentIDsOf(a),
                       Status |-> status[a],
                       MaxTickets |-> MaxTicketsOf(a),
                       CurrentTickets |-> 0, TicketsToday |-> 0,
                       TotalResolved |-> 0, AvgRating |-> Zero,
                       IsActive |-> TRUE, IsDeleted |-> FALSE]]
    /\ departments = [d \in DeptIDs |->
                        [ID |-> d, TenantID |-> Tenant,
                         SLAPolicyID |-> NilObjectID,
                         OpenTickets |-> 0, TotalTickets |-> 0,
                         IsDeleted |-> FALSE]]
    /\ slaPolicies = << >>
    /\ history = << >>
    /\ counters = << >>
    /\ config \in [AutoAssignEnabled : BOOLEAN, SLAEnabled : {TRUE}]
    /\ faults = 0
    /\ procs = << >>
    /\ messages = << >>

NextAssign ==
    \/ DoCreateTicket
    \/ DoAssignTicket
    \/ DoTransferTicket

SpecAssign == InitAssign /\ [][NextAssign]_vars

-----------------------------------------------------------------------------
(* The state machine of the patches: tickets are created and updated *)

\* The category ids a patch may carry: every category, the id of no category,
\* and none.
CategoryIDArgs ==
    {Hex(c) : c \in CategoryIDs} \cup {Hex(NilObjectID), AbsentID}

\* The patches: each field absent, equal to what CreateTicket stored or
\* another value.
PatchRequests ==
    [Subject : {Absent, "s", "s2"}, Description : {Absent, "d2"},
     Type : {Absent, TypeIncident},
     Priority : {Absent, PriorityHigh},
     DepartmentID : {AbsentID, Hex(1)},
     CategoryID : CategoryIDArgs]

DoPatchTicket ==
    \E id \in TicketIDArgs, req \in PatchRequests, isAgent \in BOOLEAN,
       fail \in BOOLEAN :
        /\ Budget(fail)
        /\ Commit(UpdateTicket(Store, id, req, Customer, isAgent, fail).st)
        /\ UNCHANGED procs

NextPatch ==
    \/ DoCreateTicket
    \/ DoPatchTicket

SpecPatch == Init /\ [][NextPatch]_vars

-----------------------------------------------------------------------------
(* Properties of the lifecycle engine, one request at a time *)

LiveTickets == {t \in DOMAIN tickets : ~tickets[t].IsDeleted}

HasAction(t, action) ==
    /\ t \in DOMAIN history
    /\ \E i \in 1..Len(history[t]) : history[t][i].Action = action

\* The tickets a department's open counter is meant to count.
OpenIn(d) ==
    {t \in DOMAIN tickets :
        /\ tickets[t].DepartmentID = d
        /\ ~tickets[t].IsDeleted
        /\ tickets[t].Status \notin {StatusResolved, StatusClosed}}

\* The tickets an agent's workload counter is meant to count.
WorkloadOf(a) ==
    {t \in DOMAIN tickets :
        /\ tickets[t].AssignedToID = agents[a].UserID
        /\ ~tickets[t].IsDeleted
        /\ tickets[t].Status \notin {StatusResolved, StatusClosed}}

\* The agents a user id names.
AgentsOf(userID) == {a \in AgentIDs : agents[a].UserID = userID}

\* C1. Counter conservation: after any sequence of requests, every
\* department's OpenTickets is the number of its tickets that are not
\* deleted and neither resolved nor closed. Stated for the runs in which no
\* store write failed.
C1_CounterConservation ==
    faults = 0 =>
        \A d \in DeptIDs : departments[d].OpenTickets = Cardinality(OpenIn(d))

\* C2. Capacity: an AssignTicket that assigns (also the one TransferTicket
\* chains into) leaves the assignee with CurrentTickets <= MaxTickets, and an
\* AssignTicket of an existing ticket to an agent with
\* CurrentTickets >= MaxTickets fails with the capacity error and leaves the
\* whole store as it was.
C2_CapacityInvariant ==
    \A id \in TicketIDArgs, assigneeID \in AssigneeIDArgs :
      \A a \in AgentsOf(assigneeID) :
        /\ \A fail \in BOOLEAN :
             LET r == AssignTicket(Store, id, assigneeID, fail) IN
             /\ r.err = NoError =>
                  /\ r.st.agents[a].CurrentTickets
                        = agents[a].CurrentTickets + 1
                  /\ r.st.agents[a].CurrentTickets <= agents[a].MaxTickets
             /\ (/\ GetTicket(Store, id).err = NoError
                 /\ agents[a].CurrentTickets >= agents[a].MaxTickets)
                  => r.err = ErrCapacity /\ r.st = Store
        /\ \A departmentID \in DepartmentIDArgs :
             \A r \in TransferTicket(Store, id, departmentID, assigneeID,
                                     FALSE) :
                r.st.agents[a].CurrentTickets > agents[a].CurrentTickets
                    => r.st.agents[a].CurrentTickets <= agents[a].MaxTickets

\* An agent is at capacity with a ticket AssignTicket gave it.
C2_Witness ==
    \E a \in AgentIDs, t \in LiveTickets :
        /\ agents[a].CurrentTickets = agents[a].MaxTickets
        /\ tickets[t].AssignedToID = agents[a].UserID
        /\ HasAction(t, "assigned")

\* The transitions the table allows a customer.
CustomerTransitions ==
    {<<StatusResolved, StatusReopened>>, <<StatusResolved, StatusClosed>>,
     <<StatusPending, StatusOpen>>, <<StatusOpen, StatusCancelled>>}

\* C3. Status transition table: ChangeStatus of a ticket succeeds (its store
\* write not failing) exactly when the caller is an agent or the pair of
\* statuses is one of the four customer transitions; otherwise it returns
\* the invalid-transition error and leaves the whole store as it was.
C3_TransitionTable ==
    \A t \in LiveTickets, status \in TicketStatus, isAgent \in BOOLEAN :
        LET from == tickets[t].Status
            allowed == isAgent \/ <<from, status>> \in CustomerTransitions
            r == ChangeStatus(Store, Hex(t), status, isAgent, FALSE)
        IN IF allowed
           THEN /\ r.err = NoError
                /\ r.st.tickets[t].Status = status
                /\ r.ticket.Status = status
           ELSE \A fail \in BOOLEAN :
                    ChangeStatus(Store, Hex(t), status, isAgent, fail)
                        = Result(Store, ErrInvalidTransition, Nil)

\* A ticket a status change has brought to pending, with a department and an
\* assignee whose counters a refused change must leave alone.
C3_Witness ==
    \E t \in LiveTickets :
        /\ tickets[t].Status = StatusPending
        /\ HasAction(t, "status_changed")
        /\ tickets[t].DepartmentID # NilObjectID
        /\ tickets[t].AssignedToID # EmptyString

\* C5. Agent workload consistency: after any sequence of requests, every
\* agent's CurrentTickets is the number of tickets assigned to it that are
\* not deleted and neither resolved nor closed. Stated for the runs in which
\* no store write failed.
C5_WorkloadConsistency ==
    faults = 0 =>
        \A a \in AgentIDs :
            agents[a].CurrentTickets = Cardinality(WorkloadOf(a))

\* C7. Resolve side effects: a ChangeStatus that moves an assigned ticket to
\* resolved raises the TotalResolved of the ticket's assignee by one and
\* lowers its CurrentTickets, which was at least 1, by one; the ticket's
\* department, if any, has OpenTickets lowered by one.
C7_ResolveSideEffects ==
    \A t \in LiveTickets, isAgent \in BOOLEAN :
        LET tk == tickets[t]
            r == ChangeStatus(Store, Hex(t), StatusResolved, isAgent, FALSE)
        IN (r.err = NoError /\ tk.AssignedToID # EmptyString) =>
             /\ \A a \in AgentsOf(tk.AssignedToID) :
                  /\ r.st.agents[a].TotalResolved
                        = agents[a].TotalResolved + 1
                  /\ agents[a].CurrentTickets >= 1
                  /\ r.st.agents[a].CurrentTickets
                        = agents[a].CurrentTickets - 1
             /\ tk.DepartmentID # NilObjectID =>
                  r.st.departments[tk.DepartmentID].OpenTickets
                      = departments[tk.DepartmentID].OpenTickets - 1

\* The history of ticket t holds no other entries than those of its
\* creation, its assignments and its status changes.
OnlyStatusAndAssignment(t) ==
    /\ t \in DOMAIN history
    /\ \A i \in 1..Len(history[t]) :
          history[t][i].Action \in
              {"created", "assigned", "auto_assigned", "status_changed"}

\* C8. No double decrement on close: a ticket of a department that was
\* resolved and never reopened (nor transferred) has had the department's
\* OpenTickets lowered on its behalf, so closing it later, from whatever
\* status an agent has moved it to since, lowers no department counter
\* again. Stated for the runs in which no store write failed.
C8_NoDoubleDecrementOnClose ==
    faults = 0 =>
      \A t \in LiveTickets :
        LET tk == tickets[t]
            r == ChangeStatus(Store, Hex(t), StatusClosed, TRUE, FALSE)
        IN (/\ tk.DepartmentID # NilObjectID
            /\ tk.ResolvedAt
            /\ tk.ReopenCount = 0
            /\ tk.Status \notin {StatusResolved, StatusClosed, StatusReopened}
            /\ OnlyStatusAndAssignment(t)
            /\ r.err = NoError)
           => r.st.departments = departments

\* C9. Reopen: after a ChangeStatus to reopened the stored ticket, as
\* GetTicket returns it, has neither ResolvedAt nor ClosedAt, its ReopenCount
\* is one higher and its department's OpenTickets is one higher.
C9_ReopenClearsStamps ==
    \A t \in LiveTickets, isAgent \in BOOLEAN :
        LET tk == tickets[t]
            r == ChangeStatus(Store, Hex(t), StatusReopened, isAgent, FALSE)
            after == GetTicket(r.st, Hex(t)).ticket
        IN r.err = NoError =>
             /\ after.ResolvedAt = FALSE
             /\ after.ClosedAt = FALSE
             /\ after.ReopenCount = tk.ReopenCount + 1
             /\ tk.DepartmentID # NilObjectID =>
                  r.st.departments[tk.DepartmentID].OpenTickets
                      = departments[tk.DepartmentID].OpenTickets + 1

RECURSIVE SumCurrentTickets(_, _)
SumCurrentTickets(ag, ids) ==
    IF ids = {} THEN 0
    ELSE LET a == CHOOSE x \in ids : TRUE IN
         ag[a].CurrentTickets + SumCurrentTickets(ag, ids \ {a})

\* C10. Reassignment moves the workload: an AssignTicket of a ticket
\* assigned to agent A to another agent B below capacity lowers A's
\* CurrentTickets by one and raises B's by one; the sum over all agents is
\* unchanged.
C10_ReassignmentMovesWorkload ==
    \A t \in LiveTickets, assigneeID \in AssigneeIDArgs :
      \A a \in AgentsOf(tickets[t].AssignedToID), b \in AgentsOf(assigneeID) :
        LET r == AssignTicket(Store, Hex(t), assigneeID, FALSE) IN
        (a # b /\ agents[b].CurrentTickets < agents[b].MaxTickets) =>
            /\ r.err = NoError
            /\ r.st.agents[a].CurrentTickets = agents[a].CurrentTickets - 1
            /\ r.st.agents[b].CurrentTickets = agents[b].CurrentTickets + 1
            /\ SumCurrentTickets(r.st.agents, AgentIDs)
                  = SumCurrentTickets(agents, AgentIDs)

-----------------------------------------------------------------------------
(* Properties of concurrent requests *)

\* The creations that hold a ticket number: allocated, whether inserted,
\* failed or still under way.
Holders == {p \in ProcIDs : procs[p].op = "CreateTicket"
                              /\ procs[p].sequence > 0}

CounterOf(cnt, tenantID) == IF tenantID \in DOMAIN cnt THEN cnt[tenantID] ELSE 0

\* p takes a ticket number in this step.
Allocates(p) == procs[p].pc # "cr_insert" /\ procs'[p].pc = "cr_insert"

\* C4. Ticket numbering under concurrent CreateTicket calls of one tenant:
\* the numbers held by the creations and by the stored tickets are pairwise
\* distinct, every allocation returns a sequence value greater than the
\* counter before it, greater than every value a creation holds (a failed one
\* included) and a number no stored ticket has, and the counter never goes
\* back.
C4_TicketNumbering ==
    /\ [](/\ \A t, u \in DOMAIN tickets :
               t # u => tickets[t].TicketNumber # tickets[u].TicketNumber
          /\ \A p, q \in Holders :
               p # q => /\ procs[p].sequence # procs[q].sequence
                        /\ procs[p].ticket.TicketNumber
                              # procs[q].ticket.TicketNumber
          /\ \A p \in Holders :
               procs[p].sequence <= CounterOf(counters, Tenant))
    /\ [][/\ CounterOf(counters', Tenant) >= CounterOf(counters, Tenant)
          /\ \A p \in ProcIDs : Allocates(p) =>
               /\ procs'[p].sequence > CounterOf(counters, Tenant)
               /\ procs'[p].sequence = CounterOf(counters', Tenant)
               /\ \A q \in Holders : procs'[p].sequence > procs[q].sequence
               /\ \A t \in DOMAIN tickets :
                    tickets[t].TicketNumber
                        # procs'[p].ticket.TicketNumber]_vars

\* Two creations hold their numbers at once, neither inserted yet, after an
\* earlier creation failed and left a gap.
C4_Witness ==
    /\ \A p \in ProcIDs : procs[p].pc = "cr_insert"
    /\ faults > 0
    /\ CounterOf(counters, Tenant)
          > Cardinality(DOMAIN tickets) + Cardinality(Inserting)

\* p and q have both been through AssignTicket's capacity check and its
\* increment, for two tickets and one agent whom each of them read one
\* ticket below capacity.
Raced(p, q) ==
    /\ p # q
    /\ \A r \in {p, q} :
         /\ procs[r].op = "AssignTicket"
         /\ procs[r].pc \in {"as_history", "done"}
         /\ procs[r].err = NoError
         /\ procs[r].agent.CurrentTickets = procs[r].agent.MaxTickets - 1
    /\ procs[p].agent.ID = procs[q].agent.ID
    /\ procs[p].ticket.ID # procs[q].ticket.ID

\* C6. Capacity race: two AssignTicket requests for two tickets and one agent
\* at MaxTickets - 1 that both pass the capacity check before either increment
\* lands leave the agent over capacity, at MaxTickets + 1 when theirs are the
\* only two increments since the agent was read.
C6_CapacityRace ==
    \A p, q \in ProcIDs :
        Raced(p, q) =>
            LET a == agents[procs[p].agent.ID] IN
            /\ a.CurrentTickets > a.MaxTickets
            /\ a.TicketsToday = procs[p].agent.TicketsToday + 2
                  => a.CurrentTickets = a.MaxTickets + 1

C6_Witness ==
    \E p, q \in ProcIDs :
        /\ Raced(p, q)
        /\ agents[procs[p].agent.ID].CurrentTickets
              = agents[procs[p].agent.ID].MaxTickets + 1

-----------------------------------------------------------------------------
(* Properties of transfer, replies, the audit trail, rating and deletion *)

\* The department ids that name no department: texts that are no ObjectID
\* and ObjectIDs no department has.
UnknownDepartmentIDArgs ==
    {d \in DepartmentIDArgs :
        \/ ObjectIDFromHex(d).err
        \/ ObjectIDFromHex(d).id \notin DOMAIN departments
        \/ departments[ObjectIDFromHex(d).id].IsDeleted}

\* C11. A TransferTicket of an existing ticket to a department id that does
\* not parse or names no department fails with the invalid-department or
\* the department-not-found error and leaves the whole store, the ticket,
\* every counter and the history, as it was.
C11_TransferUnknownDepartment ==
    \A t \in LiveTickets, departmentID \in UnknownDepartmentIDArgs,
       assigneeID \in AssigneeIDArgs \cup {EmptyString}, fail \in BOOLEAN :
        \A r \in TransferTicket(Store, Hex(t), departmentID, assigneeID, fail) :
            /\ r.err = IF ObjectIDFromHex(departmentID).err
                       THEN ErrInvalidDepartmentID
                       ELSE ErrDepartmentNotFound
            /\ r.st = Store
            /\ r.ticket = Nil

\* A ticket with a department and an assignee, which a transfer would move,
\* is there to be transferred to each kind of unknown department.
C11_Witness ==
    \E t \in LiveTickets :
        /\ tickets[t].DepartmentID # NilObjectID
        /\ tickets[t].AssignedToID # EmptyString
        /\ \E d1, d2 \in UnknownDepartmentIDArgs :
            /\ ObjectIDFromHex(d1).err
            /\ ~ObjectIDFromHex(d2).err

\* C12. Transfer clears the assignment: after a TransferTicket without an
\* explicit assignee, auto-assign disabled, the stored ticket, as GetTicket
\* returns it, is in the target department and has no assignee and no
\* AssignedAt; the old department's OpenTickets and the old assignee's
\* CurrentTickets are one lower, the target department's OpenTickets and
\* TotalTickets one higher.
C12_TransferClearsAssignment ==
    ~config.AutoAssignEnabled =>
      \A t \in LiveTickets, d \in DeptIDs :
        \A r \in TransferTicket(Store, Hex(t), Hex(d), EmptyString, FALSE) :
          LET tk == tickets[t]
              after == GetTicket(r.st, Hex(t)).ticket
          IN r.err = NoError =>
               /\ after.DepartmentID = d
               /\ after.AssignedToID = EmptyString
               /\ after.AssignedAt = FALSE
               /\ r.st.departments[d].TotalTickets
                     = departments[d].TotalTickets + 1
               /\ (tk.DepartmentID # d) =>
                     r.st.departments[d].OpenTickets
                         = departments[d].OpenTickets + 1
               /\ (tk.DepartmentID \notin {NilObjectID, d}) =>
                     r.st.departments[tk.DepartmentID].OpenTickets
                         = departments[tk.DepartmentID].OpenTickets - 1
               /\ \A a \in AgentsOf(tk.AssignedToID) :
                     r.st.agents[a].CurrentTickets
                         = agents[a].CurrentTickets - 1

\* C13. AddReply changes the status in one case only: the reply of a customer
\* to a pending ticket sets it to open; any other reply, and a reply that
\* fails, leaves the status as it was.
C13_ReplyStatus ==
    \A t \in LiveTickets, req \in ReplyRequests, senderType \in SenderType,
       fail \in BOOLEAN :
        LET tk == tickets[t]
            r == AddReply(Store, Hex(t), req, senderType, fail)
        IN r.st.tickets[t].Status =
              IF /\ r.err = NoError
                 /\ senderType = SenderCustomer
                 /\ tk.Status = StatusPending
              THEN StatusOpen
              ELSE tk.Status

\* A customer has answered a ticket that was pending, which is open again,
\* and an agent has answered it too.
C13_Witness ==
    \E t \in LiveTickets :
        /\ tickets[t].Status = StatusOpen
        /\ tickets[t].LastCustomerReplyAt
        /\ tickets[t].LastAgentReplyAt
        /\ HasAction(t, "status_changed")

HistoryOf(hist, t) == IF t \in DOMAIN hist THEN hist[t] ELSE << >>

\* The handler's outcome r has added to the history of ticket t and has kept
\* what was there.
Recorded(r, t) ==
    LET h0 == HistoryOf(history, t)
        h1 == HistoryOf(r.st.history, t)
    IN /\ Len(h1) > Len(h0)
       /\ SubSeq(h1, 1, Len(h0)) = h0

\* An outcome that succeeded and changed the stored ticket t is recorded.
Audited(r, t) ==
    (r.err = NoError /\ r.st.tickets[t] # tickets[t]) => Recorded(r, t)

\* C14. Audit trail: every request that succeeds and changes a stored ticket,
\* its status included (CreateTicket, UpdateTicket, ChangeStatus,
\* AssignTicket, TransferTicket with its assignment, AddReply, RateTicket,
\* DeleteTicket), adds at least one entry to the history of that ticket and
\* keeps the entries that were there.
C14_AuditTrail ==
    /\ \A req \in CreateRequests :
         TicketIDs \ DOMAIN tickets # {} =>
           \A r \in CreateTicket(Store, req, FALSE) :
             r.err = NoError => Recorded(r, r.ticket.ID)
    /\ \A t \in LiveTickets :
        /\ \A status \in TicketStatus, isAgent \in BOOLEAN :
             Audited(ChangeStatus(Store, Hex(t), status, isAgent, FALSE), t)
        /\ \A assigneeID \in AssigneeIDArgs :
             Audited(AssignTicket(Store, Hex(t), assigneeID, FALSE), t)
        /\ \A departmentID \in DepartmentIDArgs,
              assigneeID \in AssigneeIDArgs \cup {EmptyString} :
             \A r \in TransferTicket(Store, Hex(t), departmentID, assigneeID,
                                     FALSE) : Audited(r, t)
        /\ \A req \in UpdateRequests, userID \in UserIDArgs,
              isAgent \in BOOLEAN :
             Audited(UpdateTicket(Store, Hex(t), req, userID, isAgent, FALSE),
                     t)
        /\ \A req \in ReplyRequests, senderType \in SenderType :
             LET r == AddReply(Store, Hex(t), req, senderType, FALSE) IN
             (r.err = NoError
                /\ r.st.tickets[t].Status # tickets[t].Status)
               => Recorded(r, t)
        /\ \A req \in RateRequests, userID \in UserIDArgs :
             Audited(RateTicket(Store, Hex(t), req, userID, FALSE), t)
        /\ Audited(DeleteTicket(Store, Hex(t), FALSE), t)

\* The agent whose average RateTicket recomputes for ticket t, if any.
RatedAgent(t) ==
    IF tickets[t].AssignedToID = EmptyString THEN Nil
    ELSE agentRepo_GetByID(agents,
                           ObjectIDFromHex(tickets[t].AssignedToID).id)

\* C15. Rating divisor: whenever a ticket is resolved or closed, so that its
\* customer may rate it, and RateTicket finds an agent to recompute the
\* average of, that agent's TotalResolved is at least 1 and the new average
\* is a finite number.
C15_RatingDivisor ==
    \A t \in LiveTickets, req \in RateRequests :
        LET r == RateTicket(Store, Hex(t), req, tickets[t].CustomerID, FALSE)
            agent == RatedAgent(t)
        IN (r.err = NoError /\ agent # Nil) =>
             /\ agent.TotalResolved >= 1
             /\ r.st.agents[agent.ID].AvgRating.d # 0

\* A counter lowered by one, which stays at 0 when it is 0.
Lowered(n) == IF n > 0 THEN n - 1 ELSE 0

\* C16. DeleteTicket soft-deletes: the ticket stays in the store, with
\* IsDeleted set and nothing else changed; the CurrentTickets of the agent the
\* ticket is assigned to is lowered by one; the OpenTickets of the ticket's
\* department is lowered by one if the ticket is neither resolved nor closed,
\* and no other department counter changes.
C16_DeleteSoftDeletes ==
    \A t \in LiveTickets :
        LET tk == tickets[t]
            r == DeleteTicket(Store, Hex(t), FALSE)
            open == tk.Status \notin {StatusResolved, StatusClosed}
        IN /\ r.err = NoError
           /\ DOMAIN r.st.tickets = DOMAIN tickets
           /\ r.st.tickets[t] = [tk EXCEPT !.IsDeleted = TRUE]
           /\ \A a \in AgentsOf(tk.AssignedToID) :
                r.st.agents[a].CurrentTickets
                    = Lowered(agents[a].CurrentTickets)
           /\ \A d \in DeptIDs :
                r.st.departments[d] =
                    IF d = tk.DepartmentID /\ open
                    THEN [departments[d] EXCEPT
                            !.OpenTickets = Lowered(@)]
                    ELSE departments[d]

-----------------------------------------------------------------------------
(* Properties of SLA resolution *)

\* C17. SLA resolution always populates the due dates: with the SLA enabled,
\* the ticket a successful CreateTicket stores has FirstResponseDue and
\* ResolutionDue set, whatever the policy of its department, the default
\* policy of the tenant and the priority of the ticket, also when the policy
\* chosen has no targets for that priority.
C17_SLADueDatesSet ==
    config.SLAEnabled =>
      \A req \in PriorityRequests :
        TicketIDs \ DOMAIN tickets # {} =>
          \A r \in CreateTicket(Store, req, FALSE) :
            r.err = NoError =>
              /\ r.st.tickets[r.ticket.ID].FirstResponseDue
              /\ r.st.tickets[r.ticket.ID].ResolutionDue

-----------------------------------------------------------------------------
(* Properties of the bulk operations *)

\* The lists of ticket ids that name no ticket twice.
DistinctLists ==
    {l \in TicketIDLists : \A i, j \in DOMAIN l : l[i] = l[j] => i = j}

\* What each bulk operation returns for a request of the tenant, for every
\* list of ticket ids and every argument, the store answering every write.
BulkOutcomes(ticketIDs) ==
    {BulkAssignTickets(Store, Tenant, ticketIDs, a, {}) :
        a \in AssigneeIDArgs}
    \cup {BulkChangeStatus(Store, Tenant, ticketIDs, s, {}) :
        s \in TicketStatus}
    \cup {BulkChangePriority(Store, Tenant, ticketIDs, p, {}) :
        p \in {PriorityLow, PriorityHigh}}
    \cup {BulkTransferDepartment(Store, Tenant, ticketIDs, d, {}) :
        d \in DepartmentIDArgs}
    \cup {BulkDeleteTickets(Store, Tenant, ticketIDs, {})}

\* The tickets the outcome r has written: the stored ticket or its history is
\* not what it was.
Mutated(r) ==
    {t \in DOMAIN tickets :
        \/ r.st.tickets[t] # tickets[t]
        \/ HistoryOf(r.st.history, t) # HistoryOf(history, t)}

\* C18. Bulk operations never fail as a whole: each of bulk assign, status,
\* priority, transfer and delete, for any list of ticket ids and any
\* arguments, returns no error and a successCount equal to the number of
\* tickets it mutated, and skips the ids that do not parse, the tickets that
\* are not found and the tickets of another tenant.
C18_BulkNeverFails ==
    \A ticketIDs \in DistinctLists :
        \A r \in BulkOutcomes(ticketIDs) :
            /\ r.err = NoError
            /\ r.successCount = Cardinality(Mutated(r))
            /\ \A t \in Mutated(r) : tickets[t].TenantID = Tenant

\* What the counters of the departments and of the agents are.
DepartmentCounters(dp) ==
    [d \in DOMAIN dp |->
        [OpenTickets |-> dp[d].OpenTickets,
         TotalTickets |-> dp[d].TotalTickets]]

AgentCounters(ag) ==
    [a \in DOMAIN ag |->
        [CurrentTickets |-> ag[a].CurrentTickets,
         TotalResolved |-> ag[a].TotalResolved]]

\* The pairs of a bulk operation on the one ticket id and the single-item
\* operation on it, both from the present store and both succeeding: the
\* store the bulk operation leaves, and the store the single one leaves.
StatusPairs(id) ==
    {<<BulkChangeStatus(Store, Tenant, <<id>>, s, {}),
       ChangeStatus(Store, id, s, TRUE, FALSE)>> : s \in TicketStatus}

TransferPairs(id) ==
    UNION {{<<BulkTransferDepartment(Store, Tenant, <<id>>, d, {}), r>> :
               r \in TransferTicket(Store, id, d, EmptyString, FALSE)} :
           d \in DepartmentIDArgs}

DeletePairs(id) ==
    {<<BulkDeleteTickets(Store, Tenant, <<id>>, {}),
       DeleteTicket(Store, id, FALSE)>>}

AssignPairs(id) ==
    {<<BulkAssignTickets(Store, Tenant, <<id>>, a, {}),
       AssignTicket(Store, id, a, FALSE)>> : a \in AssigneeIDArgs}

BothDone(pair) ==
    /\ pair[1].err = NoError /\ pair[1].successCount = 1
    /\ pair[2].err = NoError

\* C19. Bulk/single equivalence for department counters: for every ticket
\* mutated by BulkChangeStatus, BulkTransferDepartment or BulkDeleteTickets,
\* every department's openTickets and totalTickets are afterwards what the
\* single-item operation (ChangeStatus as agent, TransferTicket,
\* DeleteTicket) leaves from the same state.
C19_BulkDepartmentCounters ==
    \A id \in TicketIDArgs :
        \A pair \in StatusPairs(id) \cup TransferPairs(id)
                        \cup DeletePairs(id) :
            BothDone(pair) =>
                DepartmentCounters(pair[1].st.departments)
                    = DepartmentCounters(pair[2].st.departments)

\* C20. Bulk/single equivalence for agent workload: for every ticket mutated
\* by BulkAssignTickets, BulkChangeStatus, BulkTransferDepartment or
\* BulkDeleteTickets, every agent's currentTickets and totalResolved are
\* afterwards what the single-item operation (AssignTicket, ChangeStatus as
\* agent, TransferTicket, DeleteTicket) leaves from the same state, the
\* decrement of a previously assigned agent included.
C20_BulkAgentWorkload ==
    \A id \in TicketIDArgs :
        \A pair \in AssignPairs(id) \cup StatusPairs(id)
                        \cup TransferPairs(id) \cup DeletePairs(id) :
            BothDone(pair) =>
                AgentCounters(pair[1].st.agents)
                    = AgentCounters(pair[2].st.agents)

\* C21. Capacity is enforced before every new assignment, also in bulk:
\* BulkAssignTickets never raises the target agent's currentTickets above
\* its maxTickets, whatever the number of ticket ids in the batch.
C21_BulkAssignCapacity ==
    \A ticketIDs \in TicketIDLists, agentID \in AssigneeIDArgs :
        LET r == BulkAssignTickets(Store, Tenant, ticketIDs, agentID, {}) IN
        \A a \in DOMAIN agents :
            r.st.agents[a].CurrentTickets > agents[a].CurrentTickets =>
                r.st.agents[a].CurrentTickets <= r.st.agents[a].MaxTickets

\* The entries of a list of ticket ids that name a stored ticket of the
\* tenant.
OwnEntries(ticketIDs, tenantID) ==
    {i \in DOMAIN ticketIDs :
        LET ticket == BulkTicket(Store, ticketIDs[i]) IN
        ticket # Nil /\ ticket.TenantID = tenantID}

\* C22. Bulk tenant isolation: no bulk operation (assign, status, priority,
\* transfer, delete) mutates a ticket whose tenant differs from the tenant
\* of the request; such a ticket is skipped, left unchanged and not counted
\* in successCount.
C22_BulkTenantIsolation ==
    \A ticketIDs \in DistinctLists :
        \A r \in BulkOutcomes(ticketIDs) :
            /\ \A t \in DOMAIN tickets :
                  tickets[t].TenantID # Tenant =>
                      /\ r.st.tickets[t] = tickets[t]
                      /\ HistoryOf(r.st.history, t) = HistoryOf(history, t)
            /\ r.successCount <= Cardinality(OwnEntries(ticketIDs, Tenant))

-----------------------------------------------------------------------------
(* Properties of tenant isolation and of validation *)

\* C23. Tenant isolation of references: after any sequence of CreateTicket,
\* UpdateTicket, AssignTicket, TransferTicket and bulk operations, every
\* ticket's department (if any) and assignee (if any) belong to the tenant
\* of the ticket.
C23_TenantOfReferences ==
    \A t \in DOMAIN tickets :
        /\ tickets[t].DepartmentID # NilObjectID =>
              /\ tickets[t].DepartmentID \in DOMAIN departments
              /\ departments[tickets[t].DepartmentID].TenantID
                    = tickets[t].TenantID
        /\ tickets[t].AssignedToID # EmptyString =>
              \E a \in DOMAIN agents :
                  /\ agents[a].UserID = tickets[t].AssignedToID
                  /\ agents[a].TenantID = tickets[t].TenantID

\* The requests to create a ticket that lack the subject or the description.
IncompleteRequests ==
    {req \in CreateRequests : req.Subject = "" \/ req.Description = ""}

\* C24. CreateTicket with an empty subject or an empty description fails
\* before any mutation: no ticket number is allocated, no ticket is stored,
\* no department or agent counter changes and no history entry is written.
C24_CreateValidation ==
    \A req \in IncompleteRequests, fail \in BOOLEAN :
        \A r \in CreateTicket(Store, req, fail) :
            /\ r.err \in {ErrSubjectRequired, ErrDescriptionRequired}
            /\ r.ticket = Nil
            /\ r.st = Store

\* A ticket has been created in a department and assigned, so that there are
\* a counter of ticket numbers, a ticket, counters and history to keep, and
\* room for another ticket that the incomplete request does not take.
C24_Witness ==
    /\ TicketIDs \ DOMAIN tickets # {}
    /\ Tenant \in DOMAIN counters
    /\ \E t \in DOMAIN tickets :
          /\ tickets[t].DepartmentID # NilObjectID
          /\ tickets[t].AssignedToID # EmptyString
          /\ HasAction(t, "created")
    /\ \E req \in IncompleteRequests :
          /\ req.Description = "" /\ req.Subject # ""
          /\ \A r \in CreateTicket(Store, req, FALSE) :
                r.err = ErrDescriptionRequired /\ r.st.counters = counters

\* The status values a caller may pass: the enumerated ones, and a text that
\* is none of them.
StatusArgs == TicketStatus \cup {"archived"}

\* C25. In every reachable state every ticket's status is one of the nine
\* enumerated values, whatever status value a caller passes to ChangeStatus
\* or BulkChangeStatus.
C25_StatusEnumeration ==
    /\ \A t \in DOMAIN tickets : tickets[t].Status \in TicketStatus
    /\ \A id \in TicketIDArgs, status \in StatusArgs :
          /\ \A isAgent \in BOOLEAN :
                LET r == ChangeStatus(Store, id, status, isAgent, FALSE) IN
                \A t \in DOMAIN r.st.tickets :
                    r.st.tickets[t].Status \in TicketStatus
          /\ LET b == BulkChangeStatus(Store, Tenant, <<id>>, status, {}) IN
             \A t \in DOMAIN b.st.tickets :
                 b.st.tickets[t].Status \in TicketStatus

-----------------------------------------------------------------------------
(* Properties of UpdateTicket *)

\* C26. Department attachment under UpdateTicket: when UpdateTicket changes
\* the department of a ticket that is neither resolved nor closed, the old
\* department's openTickets is one lower and the new department's
\* openTickets is one higher after the call.
C26_UpdateMovesAttachment ==
    \A t \in LiveTickets, req \in UpdateRequests :
        LET r == UpdateTicket(Store, Hex(t), req, Customer, TRUE, FALSE)
            old == tickets[t].DepartmentID
            new == r.st.tickets[t].DepartmentID
        IN (/\ r.err = NoError
            /\ tickets[t].Status \notin {StatusResolved, StatusClosed}
            /\ new # old)
           => /\ r.st.departments[new].OpenTickets
                    = departments[new].OpenTickets + 1
              /\ old # NilObjectID =>
                    r.st.departments[old].OpenTickets
                        = departments[old].OpenTickets - 1

-----------------------------------------------------------------------------
(* Properties of the SLA policies *)

DefaultsOf(tenantID) ==
    {p \in DOMAIN slaPolicies : /\ slaPolicies[p].TenantID = tenantID
                                /\ slaPolicies[p].IsDefault}

\* C27. After any sequence of CreateSLAPolicy, UpdateSLAPolicy and
\* DeleteSLAPolicy calls, at most one SLA policy of a tenant has
\* isDefault = true.
C27_OneDefaultPolicy ==
    \A tenantID \in {Tenant, OtherTenant} :
        Cardinality(DefaultsOf(tenantID)) <= 1

\* The policies SLA resolution is to use for a ticket of a tenant in a
\* department: the department's policy if it is stored, otherwise the
\* tenant's active defaults; none: the static defaults apply.
SourcesFor(tenantID, departmentID) ==
    LET named == IF departmentID \in DOMAIN departments
                 THEN {departments[departmentID].SLAPolicyID}
                          \cap DOMAIN slaPolicies
                 ELSE {}
    IN IF named # {} THEN named
       ELSE {p \in DOMAIN slaPolicies : /\ slaPolicies[p].TenantID = tenantID
                                        /\ slaPolicies[p].IsDefault
                                        /\ slaPolicies[p].IsActive}

\* The due dates of the ticket are those of the static defaults.
DueByDefaults(ticket) ==
    /\ ticket.FirstResponseDue /\ ticket.ResolutionDue
    /\ ticket.FirstResponseMins = 60 * DefaultResponseHours
    /\ ticket.ResolutionMins = 60 * DefaultResolveHours

\* The due dates of the ticket are those of the policy p for its priority.
DueByPolicy(ticket, p) ==
    /\ ticket.FirstResponseDue /\ ticket.ResolutionDue
    /\ ticket.FirstResponseMins
          = FirstResponseMinsOf(slaPolicies[p], ticket.Priority)
    /\ ticket.ResolutionMins
          = ResolutionMinsOf(slaPolicies[p], ticket.Priority)

-----------------------------------------------------------------------------
(* Properties of auto-assignment *)

\* The agents of a tenant and a department that are available and below
\* their maxTickets, and those of them with the least currentTickets.
Qualified(tenantID, departmentID) ==
    {a \in DOMAIN agents :
        /\ agents[a].TenantID = tenantID
        /\ departmentID \in agents[a].DepartmentIDs
        /\ agents[a].Status = AgentStatusAvailable
        /\ agents[a].CurrentTickets < agents[a].MaxTickets}

LeastBusy(qualified) ==
    {a \in qualified :
        \A b \in qualified :
            agents[a].CurrentTickets <= agents[b].CurrentTickets}

AutoAssignedEntries(hist, t) ==
    {i \in DOMAIN HistoryOf(hist, t) :
        HistoryOf(hist, t)[i].Action = "auto_assigned"}

\* The outcome r of a request that auto-assigns ticket t, unassigned until
\* then, in department d: what the claim asks of it.
AutoAssigned(r, t, d) ==
    LET qualified == Qualified(r.st.tickets[t].TenantID, d) IN
    /\ r.err = NoError
    /\ r.st.tickets[t].DepartmentID = d
    /\ IF qualified = {}
       THEN /\ r.st.tickets[t].AssignedToID = EmptyString
            /\ AgentCounters(r.st.agents) = AgentCounters(agents)
            /\ AutoAssignedEntries(r.st.history, t)
                  = AutoAssignedEntries(history, t)
       ELSE \E a \in LeastBusy(qualified) :
               /\ r.st.tickets[t].AssignedToID = agents[a].UserID
               /\ r.st.tickets[t].AssignedAt
               /\ r.st.agents[a].CurrentTickets
                     = agents[a].CurrentTickets + 1
               /\ \A b \in DOMAIN agents \ {a} :
                     r.st.agents[b].CurrentTickets = agents[b].CurrentTickets
               /\ Cardinality(AutoAssignedEntries(r.st.history, t))
                     = Cardinality(AutoAssignedEntries(history, t)) + 1

-----------------------------------------------------------------------------
(* Properties of the message counters *)

MessagesOf(t) == IF t \in DOMAIN messages THEN messages[t] ELSE << >>

\* C30. Message counters: after any sequence of successful AddReply calls on
\* a ticket, the ticket's messageCount is the number of messages created for
\* it, private or not, and its internalNotes is the number of those created
\* with isPrivate = true.
C30_MessageCounters ==
    \A t \in DOMAIN tickets :
        /\ tickets[t].MessageCount = Len(MessagesOf(t))
        /\ tickets[t].InternalNotes
              = Cardinality({i \in DOMAIN MessagesOf(t) :
                                MessagesOf(t)[i].IsPrivate})

-----------------------------------------------------------------------------
(* Properties of the first response stamp *)

\* The reply a step appended to the thread of ticket t, if it appended one.
Replied(t) ==
    /\ t \in DOMAIN messages'
    /\ Len(messages'[t]) = Len(MessagesOf(t)) + 1

\* A reply of an agent that the customer can read.
Qualifying(message) ==
    message.SenderType = SenderAgent /\ ~message.IsPrivate

FirstResponseStep ==
    \A t \in DOMAIN tickets :
        LET old == tickets[t]
            new == tickets'[t]
            n == Len(messages'[t])
        IN
        /\ t \in DOMAIN tickets'
        /\ old.FirstResponsedAt # 0
            => new.FirstResponsedAt = old.FirstResponsedAt
        /\ (old.FirstResponsedAt = 0 /\ Replied(t)
              /\ Qualifying(messages'[t][n]))
            => new.FirstResponsedAt = n
        /\ (Replied(t) /\ ~Qualifying(messages'[t][n]))
            => /\ new.FirstResponsedAt = old.FirstResponsedAt
               /\ new.LastAgentReplyAt = old.LastAgentReplyAt
        /\ ~Replied(t) => new.FirstResponsedAt = old.FirstResponsedAt

-----------------------------------------------------------------------------
(* Properties of the history of UpdateTicket *)

\* The number of 'updated' entries for a field that a call added to the
\* history of ticket t.
UpdatedEntries(r, t, field) ==
    Cardinality({i \in (Len(HistoryOf(history, t)) + 1)
                          ..Len(HistoryOf(r.st.history, t)) :
        /\ r.st.history[t][i].Action = "updated"
        /\ r.st.history[t][i].Field = field})

\* The id a patch names, NilObjectID for a text that is no ObjectID.
IDOf(s) == ObjectIDFromHex(s).id

\* The patched fields of a request whose value is not the one the ticket has;
\* a department or a category that does not resolve is no value.
Differing(req, ticket) ==
    {f \in {"subject"} : Patched(req.Subject, ticket.Subject)}
    \cup {f \in {"description"} :
            Patched(req.Description, ticket.Description)}
    \cup {f \in {"type"} : Patched(req.Type, ticket.Type)}
    \cup {f \in {"priority"} : Patched(req.Priority, ticket.Priority)}
    \cup {f \in {"department"} :
            /\ req.DepartmentID # AbsentID
            /\ departmentRepo_GetByID(departments, IDOf(req.DepartmentID))
                    # Nil
            /\ IDOf(req.DepartmentID) # ticket.DepartmentID}
    \cup {f \in {"category"} :
            /\ req.CategoryID # AbsentID
            /\ categoryRepo_GetByID(IDOf(req.CategoryID)) # Nil
            /\ IDOf(req.CategoryID) # ticket.CategoryID}

PatchFields ==
    {"subject", "description", "type", "priority", "department", "category"}

\* C32. UpdateTicket writes exactly one 'updated' History entry for each
\* patched field among subject, description, type, priority, department and
\* category whose new value differs from the ticket's current value, and none
\* for a patched field whose value equals the current one.
C32_UpdateHistory ==
    \A t \in LiveTickets, req \in PatchRequests :
        LET r == UpdateTicket(Store, Hex(t), req, Customer, TRUE, FALSE) IN
        r.err = NoError =>
            \A f \in PatchFields :
                UpdatedEntries(r, t, f)
                    = IF f \in Differing(req, tickets[t]) THEN 1 ELSE 0

\* All but the category: the entries for subject, description, type, priority
\* and department are as C32 states.
C32_BesidesCategory ==
    \A t \in LiveTickets, req \in PatchRequests :
        LET r == UpdateTicket(Store, Hex(t), req, Customer, TRUE, FALSE) IN
        r.err = NoError =>
            \A f \in PatchFields \ {"category"} :
                UpdatedEntries(r, t, f)
                    = IF f \in Differing(req, tickets[t]) THEN 1 ELSE 0

-----------------------------------------------------------------------------
(* Properties of the counters *)

\* C33. Counters are never negative: in every reachable state every
\* department's openTickets and every agent's currentTickets is at least 0,
\* and a decrement applied to a counter that is 0 leaves it at 0.
C33_CountersNonNegative ==
    /\ \A d \in DOMAIN departments :
        /\ departments[d].OpenTickets >= 0
        /\ departments[d].OpenTickets = 0
            => departmentRepo_DecrementOpenTickets(departments, d)
                    [d].OpenTickets = 0
    /\ \A a \in DOMAIN agents :
        /\ agents[a].CurrentTickets >= 0
        /\ agents[a].CurrentTickets = 0
            => agentRepo_DecrementTicketCount(agents, a)
                    [a].CurrentTickets = 0

\* The actions of the history of ticket t, oldest first.
ActionsOf(t) ==
    [i \in 1..Len(HistoryOf(history, t)) |-> history[t][i].Action]

\* The only ticket was created in a department, resolved by its one status
\* change, which took the department's openTickets to 0, and then transferred
\* out of it: the transfer decremented a counter that was 0.
C33_Witness ==
    \E t \in DOMAIN tickets, d \in DOMAIN departments :
        /\ DOMAIN tickets = {t}
        /\ tickets[t].Status = StatusResolved
        /\ ActionsOf(t) = <<"created", "status_changed", "transferred">>
        /\ tickets[t].DepartmentID # d
        /\ departments[d].TotalTickets = 1
        /\ departments[d].OpenTickets = 0

-----------------------------------------------------------------------------
(* Properties of two writers of one ticket *)

\* A ChangeStatus p and an AssignTicket q that both succeeded on the only
\* ticket, the only requests made on it, whatever the order of their steps.
BothWrote(p, q) ==
    /\ procs[p].op = "ChangeStatus" /\ procs[q].op = "AssignTicket"
    /\ procs[p].pc = "done" /\ procs[q].pc = "done"
    /\ procs[p].err = NoError /\ procs[q].err = NoError
    /\ procs[p].served = 1 /\ procs[q].served = 1
    /\ procs[p].ticket.ID = procs[q].ticket.ID
    /\ Cardinality(DOMAIN tickets) = 1
    /\ ~config.AutoAssignEnabled

\* C34. No lost update on one ticket: when a ChangeStatus and an AssignTicket
\* on the same ticket interleave their store read and their whole-ticket
\* write, the finally stored ticket has the new status and the new assignee,
\* and the counters are those of the two calls: the assignee counts the
\* ticket, and its department counts it as open unless it was resolved.
C34_NoLostUpdate ==
    \A p, q \in ProcIDs :
        BothWrote(p, q) =>
            LET t == tickets[procs[p].ticket.ID]
                a == procs[q].agent.ID
                d == t.DepartmentID
            IN /\ t.Status = procs[p].status
               /\ t.AssignedToID = procs[q].agent.UserID
               /\ agents[a].CurrentTickets = 1
               /\ d # NilObjectID =>
                    departments[d].OpenTickets
                        = IF procs[p].status = StatusResolved THEN 0 ELSE 1

\* Run one after the other, in either order, the two calls leave what C34
\* states: the ticket read by the second is the one the first wrote.
C34_OneAfterTheOther ==
    \A t \in LiveTickets, status \in RaceStatuses,
       assigneeID \in ValidAssigneeIDArgs :
        LET r1 == ChangeStatus(Store, Hex(t), status, TRUE, FALSE)
            r2 == AssignTicket(r1.st, Hex(t), assigneeID, FALSE)
            r3 == AssignTicket(Store, Hex(t), assigneeID, FALSE)
            r4 == ChangeStatus(r3.st, Hex(t), status, TRUE, FALSE)
        IN /\ (r1.err = NoError /\ r2.err = NoError)
                => /\ r2.st.tickets[t].Status = status
                   /\ r2.st.tickets[t].AssignedToID = assigneeID
           /\ (r3.err = NoError /\ r4.err = NoError)
                => /\ r4.st.tickets[t].Status = status
                   /\ r4.st.tickets[t].AssignedToID = assigneeID

-----------------------------------------------------------------------------
(* Properties of a failed ticket write *)

\* The outcomes of a ChangeStatus, an AssignTicket or a TransferTicket on
\* ticket t whose ticket write to the store fails.
FailedWrites(t) ==
    {ChangeStatus(Store, Hex(t), status, TRUE, TRUE) :
        status \in TicketStatus}
    \cup {AssignTicket(Store, Hex(t), assigneeID, TRUE) :
            assigneeID \in AssigneeIDArgs}
    \cup UNION {TransferTicket(Store, Hex(t), departmentID, assigneeID, TRUE) :
            departmentID \in DepartmentIDArgs,
            assigneeID \in AssigneeIDArgs \cup {EmptyString}}

\* C35. No counter change on a failed write: if ChangeStatus, AssignTicket or
\* TransferTicket returns an error because the ticket write to the store
\* failed, no department counter and no agent counter has been changed by
\* that call.
C35_FailedWriteKeepsCounters ==
    \A t \in LiveTickets : \A r \in FailedWrites(t) :
        r.err = ErrStore =>
            /\ DepartmentCounters(r.st.departments)
                    = DepartmentCounters(departments)
            /\ AgentCounters(r.st.agents) = AgentCounters(agents)

\* What a failed write does keep: the ticket and the history.
C35_FailedWriteKeepsTicket ==
    \A t \in LiveTickets : \A r \in FailedWrites(t) :
        r.err = ErrStore =>
            /\ r.st.tickets = tickets
            /\ r.st.history = history

-----------------------------------------------------------------------------
(* Properties of a soft-deleted ticket *)

\* An operation tried on a ticket: the store it leaves, and whether it
\* refused (an error, or a bulk operation that counted no ticket).
Attempt(st, refused) == [st |-> st, refused |-> refused]

\* Every operation on the id of ticket t, from the store st.
Attempts(st, t) ==
    {Attempt(r.st, r.err # NoError) :
        r \in {UpdateTicket(st, Hex(t), req, Customer, isAgent, FALSE) :
                 req \in UpdateRequests, isAgent \in BOOLEAN}}
    \cup {Attempt(r.st, r.err # NoError) :
        r \in {ChangeStatus(st, Hex(t), status, isAgent, FALSE) :
                 status \in TicketStatus, isAgent \in BOOLEAN}}
    \cup {Attempt(r.st, r.err # NoError) :
        r \in {AssignTicket(st, Hex(t), assigneeID, FALSE) :
                 assigneeID \in AssigneeIDArgs}}
    \cup {Attempt(r.st, r.err # NoError) :
        r \in UNION {TransferTicket(st, Hex(t), departmentID, assigneeID,
                                    FALSE) :
                 departmentID \in DepartmentIDArgs,
                 assigneeID \in AssigneeIDArgs \cup {EmptyString}}}
    \cup {Attempt(r.st, r.err # NoError) :
        r \in {AddReply(st, Hex(t), req, senderType, FALSE) :
                 req \in ReplyRequests, senderType \in SenderType}}
    \cup {Attempt(r.st, r.err # NoError) :
        r \in {RateTicket(st, Hex(t), req, Customer, FALSE) :
                 req \in RateRequests}}
    \cup {Attempt(r.st, r.err # NoError) :
        r \in {DeleteTicket(st, Hex(t), FALSE)}}
    \cup {Attempt(r.st, r.err # NoError \/ r.successCount = 0) :
        r \in {BulkAssignTickets(st, Tenant, <<Hex(t)>>, a, {}) :
                 a \in AssigneeIDArgs}
              \cup {BulkChangeStatus(st, Tenant, <<Hex(t)>>, status, {}) :
                 status \in TicketStatus}
              \cup {BulkChangePriority(st, Tenant, <<Hex(t)>>, p, {}) :
                 p \in {PriorityLow, PriorityHigh}}
              \cup {BulkTransferDepartment(st, Tenant, <<Hex(t)>>, d, {}) :
                 d \in DepartmentIDArgs}
              \cup {BulkDeleteTickets(st, Tenant, <<Hex(t)>>, {})}}

\* The store as it is, and as BulkDeleteTickets leaves it for each ticket of
\* the tenant that is not deleted yet.
AfterDeletion ==
    {Store} \cup {BulkDeleteTickets(Store, Tenant, <<Hex(t)>>, {}).st :
                    t \in LiveTickets}

\* C36. A soft-deleted ticket is inert: once DeleteTicket or
\* BulkDeleteTickets has deleted a ticket, every later operation on its id
\* (update, status change, assign, transfer, reply, rate, delete and every
\* bulk operation) fails or skips it and changes neither the ticket, nor any
\* department or agent counter, nor the history.
C36_DeletedIsInert ==
    \A st \in AfterDeletion :
        \A t \in {u \in DOMAIN st.tickets : st.tickets[u].IsDeleted} :
            \A a \in Attempts(st, t) :
                /\ a.refused
                /\ a.st.tickets = st.tickets
                /\ a.st.departments = st.departments
                /\ a.st.agents = st.agents
                /\ a.st.history = st.history
                /\ a.st.messages = st.messages

\* DeleteTicket has deleted a ticket that was assigned and had a department,
\* another ticket is still there, and a status change and a reply on the
\* deleted id are answered with the error of GetTicket.
C36_Witness ==
    \E t \in DOMAIN tickets, u \in LiveTickets :
        /\ tickets[t].IsDeleted
        /\ tickets[t].AssignedToID # EmptyString
        /\ tickets[t].DepartmentID # NilObjectID
        /\ ChangeStatus(Store, Hex(t), StatusResolved, TRUE, FALSE).err
                = ErrTicketNotFound
        /\ AddReply(Store, Hex(t), [IsPrivate |-> FALSE], SenderAgent,
                    FALSE).err = ErrTicketNotFound

-----------------------------------------------------------------------------
(* Properties of a change to the same status *)

\* C37. Same-status change is counter-neutral: a ChangeStatus by an agent to
\* the status the ticket already has (resolved to resolved, closed to closed,
\* reopened to reopened) changes no department counter, no agent counter and
\* not the ticket's reopenCount.
C37_SameStatusNeutral ==
    \A t \in LiveTickets :
        LET status == tickets[t].Status
            r == ChangeStatus(Store, Hex(t), status, TRUE, FALSE)
        IN (/\ status \in {StatusResolved, StatusClosed, StatusReopened}
            /\ r.err = NoError)
           => /\ DepartmentCounters(r.st.departments)
                    = DepartmentCounters(departments)
              /\ AgentCounters(r.st.agents) = AgentCounters(agents)
              /\ r.st.tickets[t].ReopenCount = tickets[t].ReopenCount

\* A same-status change of any other status is neutral.
C37_OtherStatusesNeutral ==
    \A t \in LiveTickets :
        LET status == tickets[t].Status
            r == ChangeStatus(Store, Hex(t), status, TRUE, FALSE)
        IN (/\ status \notin {StatusResolved, StatusClosed, StatusReopened}
            /\ r.err = NoError)
           => /\ DepartmentCounters(r.st.departments)
                    = DepartmentCounters(departments)
              /\ AgentCounters(r.st.agents) = AgentCounters(agents)
              /\ r.st.tickets[t].ReopenCount = tickets[t].ReopenCount

-----------------------------------------------------------------------------
(* Properties of an assignment to the same agent *)

\* C38. Re-assignment to the same agent is workload-neutral: an AssignTicket
\* that assigns a ticket to the agent it is already assigned to (that agent
\* being below capacity) leaves that agent's currentTickets unchanged,
\* however often it is repeated.
C38_SameAgentNeutral ==
    \A t \in LiveTickets, a \in DOMAIN agents :
        LET r == AssignTicket(Store, Hex(t), agents[a].UserID, FALSE) IN
        (/\ tickets[t].AssignedToID = agents[a].UserID
         /\ ~AtCapacity(agents[a])
         /\ r.err = NoError)
        => r.st.agents[a].CurrentTickets = agents[a].CurrentTickets

\* What the repeated assignment does keep: the ticket's assignee, and every
\* other agent's workload.
C38_SameAgentKeepsOthers ==
    \A t \in LiveTickets, a \in DOMAIN agents :
        LET r == AssignTicket(Store, Hex(t), agents[a].UserID, FALSE) IN
        (/\ tickets[t].AssignedToID = agents[a].UserID
         /\ r.err = NoError)
        => /\ r.st.tickets[t].AssignedToID = tickets[t].AssignedToID
           /\ \A b \in DOMAIN agents \ {a} :
                r.st.agents[b].CurrentTickets = agents[b].CurrentTickets

-----------------------------------------------------------------------------
(* Properties of a department's totalTickets *)

\* The departments' totalTickets.
TotalTicketsOf(dp) == [d \in DOMAIN dp |-> dp[d].TotalTickets]

\* C39. Department totalTickets counts arrivals only: a ChangeStatus to
\* reopened leaves the department's totalTickets unchanged, so that a
\* department's totalTickets stays the number of tickets created in it plus
\* the number of transfers into it.
C39_TotalCountsArrivals ==
    \A t \in LiveTickets, isAgent \in BOOLEAN :
        LET r == ChangeStatus(Store, Hex(t), StatusReopened, isAgent, FALSE)
        IN r.err = NoError
            => TotalTicketsOf(r.st.departments) = TotalTicketsOf(departments)

\* A ChangeStatus to any other status leaves every totalTickets unchanged.
C39_OtherStatusesKeepTotal ==
    \A t \in LiveTickets, isAgent \in BOOLEAN,
       status \in TicketStatus \ {StatusReopened} :
        LET r == ChangeStatus(Store, Hex(t), status, isAgent, FALSE)
        IN r.err = NoError
            => TotalTicketsOf(r.st.departments) = TotalTicketsOf(departments)

-----------------------------------------------------------------------------
(* Properties of the ticket TransferTicket returns *)

\* The chained AssignTicket of the outcome r succeeded: its entry is the last
\* of the history of ticket t.
ChainedAssigned(r, t) ==
    LET h == HistoryOf(r.st.history, t) IN
    /\ Len(h) = Len(HistoryOf(history, t)) + 2
    /\ h[Len(h)].Action = "assigned"

\* C40. TransferTicket returns the stored state: the ticket returned by a
\* successful TransferTicket equals the ticket held in the store when the call
\* returns; when the transfer was given an explicit assignee and the chained
\* AssignTicket succeeded, the returned ticket carries that assignee and the
\* status the assignment set.
C40_TransferReturnsStored ==
    \A t \in LiveTickets, departmentID \in DepartmentIDArgs,
       assigneeID \in AssigneeIDArgs \cup {EmptyString} :
        \A r \in TransferTicket(Store, Hex(t), departmentID, assigneeID,
                                FALSE) :
            r.err = NoError =>
                /\ r.ticket = r.st.tickets[t]
                /\ (assigneeID # EmptyString /\ ChainedAssigned(r, t))
                    => /\ r.ticket.AssignedToID = assigneeID
                       /\ r.ticket.Status = r.st.tickets[t].Status

\* A transfer of a ticket that has no assignee, without an explicit one,
\* returns the stored ticket, auto-assigned or not.
C40_PlainTransferReturnsStored ==
    \A t \in LiveTickets, departmentID \in DepartmentIDArgs :
        \A r \in TransferTicket(Store, Hex(t), departmentID, EmptyString,
                                FALSE) :
            (r.err = NoError /\ tickets[t].AssignedToID = EmptyString)
                => r.ticket = r.st.tickets[t]

====
